---------------------------- MODULE Spec2Model ----------------------------
(***************************************************************************)
(* Polarization propagation, leakage / contrast evaluation and Stokes      *)
(* tracing of an IPS compensation stack (run_dispersion_updated.py,        *)
(* ips_stokes_trace.py, run_rot_AC.py, run_Re_LC.py).                      *)
(*                                                                         *)
(* Numbers.  The Python code computes in floating point; the model         *)
(* computes the same expressions in exact rational arithmetic.  A rational *)
(* is a pair <<n, d>> with d > 0 in lowest terms, a complex number a pair  *)
(* <<re, im>> of rationals, a 3-vector a triple of complex numbers.        *)
(* Lengths (thickness, wavelength) are in nanometres on both sides of      *)
(* every quotient d/lambda, so the factor 1e-9 of the code cancels.        *)
(* The optical inputs are chosen so that every retardation is a whole      *)
(* number of quarter turns, which keeps exp(i*Gamma) in {1, i, -1, -i}.    *)
(*                                                                         *)
(* Assignments.  A Python statement  x = e  followed by code that uses x   *)
(* is written  The({ ...x... : x \in {e} }) : e is evaluated once, before  *)
(* the code that uses x.                                                   *)
(***************************************************************************)
EXTENDS Integers, Sequences, FiniteSets, TLC

\* The element of a one-element set
The(S) == CHOOSE r \in S : TRUE

(***************************************************************************)
(* Rational arithmetic                                                     *)
(***************************************************************************)
Abs(x) == IF x < 0 THEN -x ELSE x

RECURSIVE GCD(_, _)
GCD(a, b) == IF b = 0 THEN a ELSE GCD(b, a % b)

RNorm(n, d) ==
    LET g == GCD(Abs(n), Abs(d))
        s == IF d < 0 THEN -1 ELSE 1
    IN  IF n = 0 THEN <<0, 1>> ELSE <<(s * n) \div g, (s * d) \div g>>

RInt(n) == <<n, 1>>
R0 == <<0, 1>>
R1 == <<1, 1>>
RAdd(a, b) ==
    IF a[1] = 0 THEN b
    ELSE IF b[1] = 0 THEN a
    ELSE RNorm(a[1] * b[2] + b[1] * a[2], a[2] * b[2])
RNeg(a) == <<-a[1], a[2]>>
RSub(a, b) == RAdd(a, RNeg(b))
RMul(a, b) ==
    IF a[1] = 0 \/ b[1] = 0 THEN <<0, 1>>
    ELSE RNorm(a[1] * b[1], a[2] * b[2])
RDiv(a, b) == RNorm(a[1] * b[2], a[2] * b[1])
RLt(a, b) == a[1] * b[2] < b[1] * a[2]
RLe(a, b) == a[1] * b[2] <= b[1] * a[2]
RAbs(a) == <<Abs(a[1]), a[2]>>
RSum3(q) == RAdd(RAdd(q[1], q[2]), q[3])

\* Exact square root of a rational that is a perfect square (numpy.linalg.norm
\* on the vectors of the model, whose squared lengths are perfect squares).
ISqrt(n) == CHOOSE r \in 0..n : r * r = n
RSqrt(a) == <<ISqrt(a[1]), ISqrt(a[2])>>

(***************************************************************************)
(* Complex numbers and complex 3-vectors                                   *)
(***************************************************************************)
C0 == <<R0, R0>>
C1r == <<R1, R0>>
CReal(r) == <<r, R0>>
CNeg(a) == <<RNeg(a[1]), RNeg(a[2])>>
Vec2(f) == <<f[1], f[2]>>
Vec3(f) == <<f[1], f[2], f[3]>>
CAdd(a, b) == Vec2([i \in 1..2 |-> RAdd(a[i], b[i])])
CSub(a, b) == CAdd(a, CNeg(b))
\* (a1 + i a2)(b1 + i b2) from the four products m[i][j] = a_i b_j
CMulOf(m) == <<RSub(m[1][1], m[2][2]), RAdd(m[1][2], m[2][1])>>
CMul(a, b) ==
    IF a = C0 \/ b = C0 THEN C0
    ELSE IF a = C1r THEN b
    ELSE IF b = C1r THEN a
    ELSE CMulOf([i \in 1..2 |-> [j \in 1..2 |-> RMul(a[i], b[j])]])
CConj(a) == <<a[1], RNeg(a[2])>>
CAbs2(a) == RAdd(RMul(a[1], a[1]), RMul(a[2], a[2]))
CSum3(p) == CAdd(CAdd(p[1], p[2]), p[3])

\* numpy.dot: no conjugation.  numpy.vdot conjugates its first argument.
VDot(a, b) == CSum3([i \in 1..3 |-> CMul(a[i], b[i])])
VVdot(a, b) == VDot(<<CConj(a[1]), CConj(a[2]), CConj(a[3])>>, b)
VSub(a, b) == Vec3([i \in 1..3 |-> CSub(a[i], b[i])])
VAdd(a, b) == Vec3([i \in 1..3 |-> CAdd(a[i], b[i])])
VMulC(c, a) == Vec3([i \in 1..3 |-> CMul(c, a[i])])
VCross(a, b) ==
    LET nxt == <<2, 3, 1>>
        prv == <<3, 1, 2>>
    IN  Vec3([i \in 1..3 |-> CSub(CMul(a[nxt[i]], b[prv[i]]),
                                  CMul(a[prv[i]], b[nxt[i]]))])
VInt(x, y, z) == <<CReal(RInt(x)), CReal(RInt(y)), CReal(RInt(z))>>
VZero == VInt(0, 0, 0)
VNorm2(a) == RSum3([i \in 1..3 |-> CAbs2(a[i])])

(***************************************************************************)
(* The engine module ips_compensation_run_signedC, which the scripts       *)
(* import as `ips`: geometry, retardance formulas, retarder operator,      *)
(* contrast conversion and the wavelength tables.                          *)
(***************************************************************************)
Sin == [a \in {0, 90, 180, 270, 360} |->
           CASE a \in {0, 180, 360} -> 0 [] a = 90 -> 1 [] a = 270 -> -1]
Cos == [a \in {0, 90, 180, 270, 360} |->
           CASE a \in {90, 270} -> 0 [] a \in {0, 360} -> 1 [] a = 180 -> -1]

\* k_hat(theta, phi): spherical to Cartesian, theta from the normal.
k_hat(theta, phi) ==
    VInt(Sin[theta] * Cos[phi], Sin[theta] * Sin[phi], Cos[theta])

\* The mutation of the re-projection that leaves the field as it is.
Reproject_Skipped(E, k) == E

\* E <- E - (E.k) k : the re-projection onto the plane transverse to k.
Reproject(E, k) ==
    The({ The({ VSub(E, Ek) : Ek \in {VMulC(dk, k)} }) : dk \in {VDot(E, k)} })

\* v / max(|v|, eps), |v|^2 = n2: the zero vector stays zero.
NormalizeBy(v, n2) ==
    IF n2 = R0 THEN v ELSE VMulC(CReal(RDiv(R1, RSqrt(n2))), v)
Normalize(v) == The({ NormalizeBy(w, VNorm2(w)) : w \in {v} })

\* o_axis_Otype(k, c): transverse pass axis of a polarizer with lab axis c,
\* the normalized projection of c onto the plane transverse to k.
o_axis_Otype(k, c) == Normalize(Reproject(c, k))

\* 3x3 complex matrices as triples of rows.
Outer(a, b) == Vec3([i \in 1..3 |-> VMulC(a[i], b)])
MScale(c, M) == Vec3([i \in 1..3 |-> VMulC(c, M[i])])
MAdd(M, N) == Vec3([i \in 1..3 |-> VAdd(M[i], N[i])])
MSub(M, N) == Vec3([i \in 1..3 |-> VSub(M[i], N[i])])
MatVec(M, E) == Vec3([i \in 1..3 |-> VDot(M[i], E)])
MId == <<VInt(1, 0, 0), VInt(0, 1, 0), VInt(0, 0, 1)>>
MZero == <<VZero, VZero, VZero>>

\* exp(i*Gamma) for Gamma a whole number q of quarter turns.
Phase(q) == <<C1r, <<R0, R1>>, <<RNeg(R1), R0>>, <<R0, RNeg(R1)>>>>[(q % 4) + 1]

\* Gamma0 = 2*pi*d*(ne - no)/lambda, counted in quarter turns (a rational).
GammaQuarters(lam, d, no, ne) ==
    RMul(RInt(4), RDiv(RMul(d, RSub(ne, no)), lam))

\* eq3a_Gamma_A / eq3b_Gamma_C at normal incidence, where both retardance
\* formulas reduce to Gamma0 whatever phi_rel is.  The model evaluates the
\* engine at theta = 0 only.
eq3a_Gamma_A(theta, phi_rel, lam, d, no, ne) ==
    CASE theta = 0 -> GammaQuarters(lam, d, no, ne)

eq3b_Gamma_C(theta, lam, d, no, ne) ==
    CASE theta = 0 -> GammaQuarters(lam, d, no, ne)

\* retarder_matrix(k, axis, Gamma): phase 1 on the element's transverse axis
\* direction (projector Pa), exp(i*Gamma) on the rest of the transverse plane
\* (projector Pb), the component along k (projector Pk) untouched.  Unitary
\* on the transverse plane, identity at Gamma = 0.
retarder_matrix(k, axis, Gamma) ==
    The({ The({ The({ The({
        CASE Gamma[2] = 1 ->
            The({ MAdd(MAdd(Pa, PbG), Pk) : PbG \in {MScale(Phase(Gamma[1]), Pb)} })
        : Pb \in {MSub(MSub(MId, Pk), Pa)} })
        : Pa \in {IF n2 = R0 THEN MZero
                  ELSE MScale(CReal(RDiv(R1, n2)), Outer(p, p))},
          Pk \in {Outer(k, k)} })
        : n2 \in {VNorm2(p)} })
        : p \in {Reproject(axis, k)} })

\* axis_azimuth_deg(axis): in-plane azimuth of an axis vector.
axis_azimuth_deg(axis) ==
    CASE axis = VInt(1, 0, 0) -> 0
      [] axis = VInt(1, 1, 0) -> 45
      [] axis = VInt(0, 1, 0) -> 90
      [] axis = VInt(-1, 1, 0) -> 135
      [] OTHER -> 0

\* The symbolic guard value eps (1e-30 in the code): smaller than every
\* positive number of the model.  x/eps is kept as the triple <<n, d, -1>>.
IsPos(x) == RLt(R0, x)
OverEps(x) == IF x[1] = 0 THEN R0 ELSE <<x[1], x[2], -1>>
\* The mutation of the guarded division without the floor: a zero
\* denominator gives x/0, kept as the pair <<n, 0>>.
DivUnguarded(x, den) == IF den[1] = 0 THEN <<x[1], 0>> ELSE RDiv(x, den)

DivGuarded(x, den) == IF IsPos(den) THEN RDiv(x, den) ELSE OverEps(x)

\* CR_from_Tleak(T) = 1 / max(T, eps)
CR_from_Tleak(T) == DivGuarded(R1, T)

\* Primary wavelengths (nm), default keys and default weights.
WL_NM == [B |-> RInt(450), G |-> RInt(546), R |-> RInt(610)]
WlKeyNames == {"B", "G", "R"}
wl_m(wl_key) == WL_NM[wl_key]
\* ips.WL_KEYS and ips.WL_WEIGHTS as the engine module sets them at import
Import_WL_KEYS == <<"B", "G", "R">>
Import_WL_WEIGHTS == [B |-> 1, G |-> 2, R |-> 1]

VARIABLES
    WL_KEYS,      \* ips.WL_KEYS: the module-level default wavelength keys
    WL_WEIGHTS,   \* ips.WL_WEIGHTS: the module-level default weights
    DN_SCALE,     \* ips.DN_SCALE: the module-level active dispersion table
    stack,        \* the caller's stack: a sequence of element records
    c1, c2,       \* the caller's polarizer axes (NoneAxis when not supplied)
    theta, phi,   \* the viewing direction (degrees)
    lam_arg,      \* the lam_nm argument (nm) of a monochromatic call
    disp_mode,    \* the dispersion-mode argument
    wl_keys,      \* the wl_keys argument (for the single-key functions: <<wl_key>>)
    wl_weights,   \* the wl_weights argument (NoneWeights when not supplied)
    basis,        \* the Stokes basis policy argument
    fn,           \* the function being called ("" when none)
    pc,           \* "idle", "ready" (arguments bound) or "done" (call over)
    ret,          \* what the last call returned or raised
    hist,         \* the call completed before the current one, if any
    scale_dict,   \* the scale_dict_BGR argument of _interp_scale
    grid,         \* <<theta_max, dtheta, dphi>> of the grid functions
    sweep,        \* the locals of the sweep driver run_rot_AC.main
    loop          \* the locals of an element loop run step by step

vars == <<WL_KEYS, WL_WEIGHTS, DN_SCALE, stack, c1, c2, theta, phi, lam_arg,
          disp_mode, wl_keys, wl_weights, basis, fn, pc, ret, hist,
          scale_dict, grid, sweep, loop>>

globals == <<WL_KEYS, WL_WEIGHTS, DN_SCALE>>
arguments == <<stack, c1, c2, theta, phi, lam_arg, disp_mode, wl_keys, wl_weights,
               basis, scale_dict, grid>>
locals == <<sweep, loop>>

\* Results: a returned value or a raised exception.
Returned(v) == [ok |-> TRUE, val |-> v, err |-> ""]
Raised(e) == [ok |-> FALSE, val |-> <<>>, err |-> e]
NoRet == [ok |-> TRUE, val |-> <<>>, err |-> "no call yet"]

(***************************************************************************)
(* run_dispersion_updated.py: dispersion helpers                           *)
(***************************************************************************)
BGR_WL == <<RInt(450), RInt(546), RInt(610)>>

\* dict.get(key, default) on a table modelled as a function
Get(dict, key, default) == IF key \in DOMAIN dict THEN dict[key] ELSE default

\* numpy.interp(x, xp, fp, left = fp[1], right = fp[3]) on three points
Interp3(x, xp, fp) ==
    IF RLe(x, xp[1]) THEN fp[1]
    ELSE IF RLe(xp[3], x) THEN fp[3]
    ELSE LET i == IF RLe(x, xp[2]) THEN 1 ELSE 2
         IN  RAdd(fp[i], RMul(RSub(fp[i + 1], fp[i]),
                              RDiv(RSub(x, xp[i]), RSub(xp[i + 1], xp[i]))))

\* The mutation of _interp_scale without left= and right=: the end segments
\* are continued linearly beyond B and R.
InterpScale_Extrapolated(lam_nm, scale_dict_BGR) ==
    LET fp == <<Get(scale_dict_BGR, "B", R1), Get(scale_dict_BGR, "G", R1),
                Get(scale_dict_BGR, "R", R1)>>
        i == IF RLe(lam_nm, BGR_WL[2]) THEN 1 ELSE 2
    IN  RAdd(fp[i], RMul(RSub(fp[i + 1], fp[i]),
                         RDiv(RSub(lam_nm, BGR_WL[i]),
                              RSub(BGR_WL[i + 1], BGR_WL[i]))))

_interp_scale(lam_nm, scale_dict_BGR) ==
    LET sb == Get(scale_dict_BGR, "B", R1)
        sg == Get(scale_dict_BGR, "G", R1)
        sr == Get(scale_dict_BGR, "R", R1)
    IN  Interp3(lam_nm, BGR_WL, <<sb, sg, sr>>)

AllOne == [B |-> R1, G |-> R1, R |-> R1]
FlatTable == [LC |-> AllOne, A |-> AllOne, C |-> AllOne, TAC |-> AllOne]

\* ips.DN_SCALE_MATCHED / ips.DN_SCALE_MISMATCHED (engine tables)
DN_SCALE_MATCHED ==
    LET m == [B |-> RInt(2), G |-> R1, R |-> RInt(4)]
    IN  [LC |-> m, A |-> m, C |-> m, TAC |-> m]
DN_SCALE_MISMATCHED ==
    [LC |-> [B |-> RInt(2), G |-> R1, R |-> RInt(4)],
     A  |-> [B |-> RInt(4), G |-> R1, R |-> RInt(2)],
     C  |-> [B |-> R1, G |-> R1, R |-> RInt(2)]]

DispModes == {"flat", "matched", "mismatched", "current"}

\* The mutation of _dn_scale_table in which 'matched' too reads the active
\* table ips.DN_SCALE.
DnScaleTable_MatchedReadsActive(mode) ==
    IF mode = "flat" THEN Returned(FlatTable)
    ELSE IF mode = "matched" THEN Returned(DN_SCALE)
    ELSE IF mode = "mismatched" THEN Returned(DN_SCALE_MISMATCHED)
    ELSE IF mode = "current" THEN Returned(DN_SCALE)
    ELSE Raised("ValueError: Unknown dispersion mode")

_dn_scale_table(mode) ==
    IF mode = "flat" THEN Returned(FlatTable)
    ELSE IF mode = "matched" THEN Returned(DN_SCALE_MATCHED)
    ELSE IF mode = "mismatched" THEN Returned(DN_SCALE_MISMATCHED)
    ELSE IF mode = "current" THEN Returned(DN_SCALE)
    ELSE Raised("ValueError: Unknown dispersion mode")

\* The mutation of ne_no_for_lambda that scales the extraordinary index
\* itself instead of the birefringence ne - no.
NeNoForLambda_ScalesIndex(el, lam_nm, mode) ==
    IF mode = "flat" THEN Returned(<<el.no, el.ne>>)
    ELSE The({
         IF ~tab.ok THEN tab
         ELSE Returned(<<el.no,
                         RMul(el.ne, _interp_scale(lam_nm,
                                                   Get(tab.val, el.type, AllOne)))>>)
         : tab \in {_dn_scale_table(mode)} })

\* returns (no, ne) at lam_nm, or raises what _dn_scale_table raises
ne_no_for_lambda(el, lam_nm, mode) ==
    LET no  == el.no
        neG == el.ne
        dnG == RSub(neG, no)
    IN  IF mode = "flat" THEN Returned(<<no, RAdd(no, dnG)>>)
        ELSE The({
             IF ~tab.ok THEN tab
             ELSE LET scale_BGR == Get(tab.val, el.type, AllOne)
                      s == _interp_scale(lam_nm, scale_BGR)
                  IN  Returned(<<no, RAdd(no, RMul(dnG, s))>>)
             : tab \in {_dn_scale_table(mode)} })

\* ips._ne_no_for_wl(el, wl_key): the indices of el at a primary wavelength,
\* (ne - no) scaled by the factor the active table ips.DN_SCALE holds for the
\* element's type at that key (1 when the table has no entry).
_ne_no_for_wl(el, wl_key) ==
    LET s == Get(Get(DN_SCALE, el.type, AllOne), wl_key, R1)
    IN  <<el.no, RAdd(el.no, RMul(RSub(el.ne, el.no), s))>>

(***************************************************************************)
(* The loop body the three propagators share                               *)
(***************************************************************************)
\* The mutation of the loop body in which the element also absorbs: the field
\* leaves with half its amplitude.
ApplyElement_Absorbing(Ein, k, el, th, ph, lam, no, ne) ==
    IF el.type \notin {"A", "LC", "C"}
    THEN Raised("ValueError: Unknown element type")
    ELSE LET Gamma == IF el.type \in {"A", "LC"}
                      THEN eq3a_Gamma_A(th, ph - axis_azimuth_deg(el.axis), lam,
                                        el.d, no, ne)
                      ELSE eq3b_Gamma_C(th, lam, el.d, no, ne)
         IN  The({ The({ Returned(VMulC(CReal(<<1, 2>>), Reproject(ME, k)))
                         : ME \in {MatVec(M, Ein)} })
                   : M \in {retarder_matrix(k, el.axis, Gamma)} })

\* The retardation by element type, the operator, the product M @ E and the
\* re-projection.  Returns the new field, or raises on an unknown type.
ApplyElement(Ein, k, el, th, ph, lam, no, ne) ==
    IF el.type \notin {"A", "LC", "C"}
    THEN Raised("ValueError: Unknown element type")
    ELSE LET Gamma == IF el.type \in {"A", "LC"}
                      THEN eq3a_Gamma_A(th, ph - axis_azimuth_deg(el.axis), lam,
                                        el.d, no, ne)
                      ELSE eq3b_Gamma_C(th, lam, el.d, no, ne)
         IN  The({ The({ Returned(Reproject(ME, k)) : ME \in {MatVec(M, Ein)} })
                   : M \in {retarder_matrix(k, el.axis, Gamma)} })

(***************************************************************************)
(* run_dispersion_updated.py: leakage and contrast                         *)
(***************************************************************************)
\* One pass of the loop of Tleak_stack_mono over element el.
MonoElement(Ein, k, el, th, ph, lam_nm, mode) ==
    The({ IF ~nn.ok THEN nn
          ELSE ApplyElement(Ein, k, el, th, ph, lam_nm, nn.val[1], nn.val[2])
          : nn \in {ne_no_for_lambda(el, lam_nm, mode)} })

\* for el in stack: ... in listed order.  after[n] is the outcome of the
\* first n passes of the loop, started with field Ein; a raise ends the loop.
MonoLoop(Ein, kdir, stk, th, ph, lam_nm, mode) ==
    LET after[n \in 0..Len(stk)] ==
            IF n = 0 THEN Returned(Ein)
            ELSE The({ IF ~prev.ok THEN prev
                       ELSE MonoElement(prev.val, kdir, stk[n], th, ph, lam_nm, mode)
                       : prev \in {after[n - 1]} })
    IN  after[Len(stk)]

\* The mutation of Tleak_stack_mono that projects the final field onto the
\* input polarizer's pass axis.
Tleak_stack_mono_OntoInput(th, ph, stk, a1, a2, lam_nm, mode) ==
    The({ The({ The({
        IF ~Ef.ok THEN Ef
        ELSE The({ Returned(CAbs2(amp)) : amp \in {VVdot(o1, Ef.val)} })
        : Ef \in {MonoLoop(o1, kv, stk, th, ph, lam_nm, mode)} })
        : o1 \in {o_axis_Otype(kv, a1)}, o2 \in {o_axis_Otype(kv, a2)} })
        : kv \in {k_hat(th, ph)} })

Tleak_stack_mono(th, ph, stk, a1, a2, lam_nm, mode) ==
    The({ The({ The({
        IF ~Ef.ok THEN Ef
        ELSE The({ Returned(CAbs2(amp)) : amp \in {VVdot(o2, Ef.val)} })
        : Ef \in {MonoLoop(o1, kv, stk, th, ph, lam_nm, mode)} })
        : o1 \in {o_axis_Otype(kv, a1)}, o2 \in {o_axis_Otype(kv, a2)} })
        : kv \in {k_hat(th, ph)} })

CR_mono(th, ph, stk, a1, a2, lam_nm, mode) ==
    The({ IF ~T.ok THEN T ELSE Returned(CR_from_Tleak(T.val))
          : T \in {Tleak_stack_mono(th, ph, stk, a1, a2, lam_nm, mode)} })

\* The mutation of the loop's pass in which wsum counts the keys instead of
\* summing their weights.
WBody_CountsKeys(acc, wkey, th, ph, stk, a1, a2, mode, wmap) ==
    The({ IF ~Tm.ok THEN Tm
          ELSE Returned(<<RAdd(acc[1], RMul(w, Tm.val)), RAdd(acc[2], R1)>>)
          : w \in {RInt(Get(wmap, wkey, 1))},
            Tm \in {Tleak_stack_mono(th, ph, stk, a1, a2, WL_NM[wkey], mode)} })

\* One pass of the loop of Tleak_stack_W, for key wkey, on the running sums
\* acc = <<Tsum, wsum>>.
WBody(acc, wkey, th, ph, stk, a1, a2, mode, wmap) ==
    The({ IF ~Tm.ok THEN Tm
          ELSE Returned(<<RAdd(acc[1], RMul(w, Tm.val)), RAdd(acc[2], w)>>)
          : w \in {RInt(Get(wmap, wkey, 1))},
            Tm \in {Tleak_stack_mono(th, ph, stk, a1, a2, WL_NM[wkey], mode)} })

\* for k in wl_keys: ... ; sums[n] is the outcome of the first n passes.
WLoop(th, ph, stk, a1, a2, mode, keys, wmap) ==
    LET sums[n \in 0..Len(keys)] ==
            IF n = 0 THEN Returned(<<R0, R0>>)
            ELSE The({ IF ~prev.ok THEN prev
                       ELSE WBody(prev.val, keys[n], th, ph, stk, a1, a2, mode, wmap)
                       : prev \in {sums[n - 1]} })
    IN  sums[Len(keys)]

\* The mutation of Tleak_stack_W that divides the weighted sum by the number
\* of keys instead of the sum of the weights.
Tleak_stack_W_PlainMean(th, ph, stk, a1, a2, mode, keys, wmap) ==
    The({ IF ~tot.ok THEN tot
          ELSE Returned(DivGuarded(tot.val[1], RInt(Len(keys))))
          : tot \in {WLoop(th, ph, stk, a1, a2, mode, keys, wmap)} })

\* Tleak_stack_W with wl_nm_map left at its default ips.WL_NM
Tleak_stack_W(th, ph, stk, a1, a2, mode, keys, wmap) ==
    The({ IF ~tot.ok THEN tot
          ELSE Returned(DivGuarded(tot.val[1], tot.val[2]))
          : tot \in {WLoop(th, ph, stk, a1, a2, mode, keys, wmap)} })

\* The mutation of CR_W that converts each wavelength's leakage to contrast
\* and then takes the weighted mean of the contrasts.
CR_W_MeanOfContrasts(th, ph, stk, a1, a2, mode) ==
    The({ IF \E n \in DOMAIN crs : ~crs[n].ok
          THEN crs[CHOOSE n \in DOMAIN crs : ~crs[n].ok]
          ELSE Returned(RDiv(
                   RSum3([n \in 1..3 |->
                      RMul(RInt(Import_WL_WEIGHTS[Import_WL_KEYS[n]]), crs[n].val)]),
                   RSum3([n \in 1..3 |-> RInt(Import_WL_WEIGHTS[Import_WL_KEYS[n]])])))
          : crs \in {[n \in 1..3 |->
                       CR_mono(th, ph, stk, a1, a2, WL_NM[Import_WL_KEYS[n]], mode)]} })

\* CR_W: the white leakage with the default keys and weights, then contrast.
\* The defaults of Tleak_stack_W are bound when the module is loaded.
CR_W(th, ph, stk, a1, a2, mode) ==
    The({ IF ~Tw.ok THEN Tw ELSE Returned(CR_from_Tleak(Tw.val))
          : Tw \in {Tleak_stack_W(th, ph, stk, a1, a2, mode,
                                  Import_WL_KEYS, Import_WL_WEIGHTS)} })

\* The mutation of the grid's arange without the 1e-12 added to the stop:
\* the half-open range [0, stop).
Arange_HalfOpen(stop, step) ==
    [i \in 1..((stop + step - 1) \div step) |-> (i - 1) * step]

\* numpy.arange(0, stop + 1e-12, step) for whole numbers with step > 0
Arange(stop, step) == [i \in 1..((stop \div step) + 1) |-> (i - 1) * step]

\* The outcome of the grid loop given the outcome cellAt[n] of every cell in
\* row-major order: the first raise, or the three returned arrays.
GridResult(thetas, phis, cellAt) ==
    LET bad == {n \in DOMAIN cellAt : ~cellAt[n].ok}
    IN  IF bad # {}
        THEN cellAt[CHOOSE n \in bad : \A m \in bad : n <= m]
        ELSE Returned(<<thetas, phis,
                        [i \in 1..Len(thetas) |->
                            [j \in 1..Len(phis) |->
                                cellAt[(i - 1) * Len(phis) + j].val]]>>)

\* compute_CR_grid_W: CR_W at every (theta, phi) of the grid, row by row.
compute_CR_grid_W(stk, a1, a2, mode, theta_max, dtheta, dphi) ==
    The({ The({ GridResult(thetas, phis, cellAt)
        : cellAt \in {[n \in 1..(Len(thetas) * Len(phis)) |->
                         CR_W(thetas[((n - 1) \div Len(phis)) + 1],
                              phis[((n - 1) % Len(phis)) + 1], stk, a1, a2, mode)]} })
        : thetas \in {Arange(theta_max, dtheta)}, phis \in {Arange(360, dphi)} })

(***************************************************************************)
(* run_rot_AC.py / run_Re_LC.py: leakage at one primary wavelength         *)
(***************************************************************************)
\* One pass of the element loop of Tleak_single_lambda and of the Stokes
\* trace: the indices come from ips._ne_no_for_wl.
KeyElement(Ein, k, el, th, ph, wl_key) ==
    The({ ApplyElement(Ein, k, el, th, ph, wl_m(wl_key), nn[1], nn[2])
          : nn \in {_ne_no_for_wl(el, wl_key)} })

\* for el in stack: ... of Tleak_single_lambda, started with field Ein
KeyLoop(Ein, kdir, stk, th, ph, wl_key) ==
    LET after[n \in 0..Len(stk)] ==
            IF n = 0 THEN Returned(Ein)
            ELSE The({ IF ~prev.ok THEN prev
                       ELSE KeyElement(prev.val, kdir, stk[n], th, ph, wl_key)
                       : prev \in {after[n - 1]} })
    IN  after[Len(stk)]

Tleak_single_lambda(th, ph, stk, a1, a2, wl_key) ==
    The({ The({ The({
        IF ~Ef.ok THEN Ef
        ELSE The({ Returned(CAbs2(amp)) : amp \in {VVdot(o2, Ef.val)} })
        : Ef \in {KeyLoop(o1, kv, stk, th, ph, wl_key)} })
        : o1 \in {o_axis_Otype(kv, a1)}, o2 \in {o_axis_Otype(kv, a2)} })
        : kv \in {k_hat(th, ph)} })

(***************************************************************************)
(* ips_stokes_trace.py                                                     *)
(***************************************************************************)
\* Python None for an axis argument, and for the wl_weights argument
NoneAxis == <<>>
NoneWeights == [None |-> 0]

\* v / max(|v|, eps)
_normalize(v) == The({ NormalizeBy(w, VNorm2(w)) : w \in {v} })

\* u, v = _normalize(u), _normalize(cross(k, u))
BasisFrom(k, u0) ==
    The({ Returned(<<u, _normalize(VCross(k, u))>>) : u \in {_normalize(u0)} })

\* The mutation of transverse_basis in which each polarizer policy asks for
\* the other polarizer's axis.
transverse_basis_SwappedAxes(k0, pol, a1, a2) ==
    The({
        IF pol = "lab"
        THEN LET x   == VInt(1, 0, 0)
                 ref == IF RLt(<<19, 20>>, RAbs(VDot(x, k)[1]))
                        THEN VInt(0, 1, 0) ELSE x
             IN  BasisFrom(k, VSub(ref, VMulC(VDot(ref, k), k)))
        ELSE IF pol = "pol_in"
        THEN IF a2 = NoneAxis
             THEN Raised("ValueError: basis='pol_in' requires c1")
             ELSE BasisFrom(k, o_axis_Otype(k, a2))
        ELSE IF pol = "pol_out"
        THEN IF a1 = NoneAxis
             THEN Raised("ValueError: basis='pol_out' requires c2")
             ELSE BasisFrom(k, o_axis_Otype(k, a1))
        ELSE Raised("ValueError: basis must be one of: lab, pol_in, pol_out")
        : k \in {_normalize(k0)} })

transverse_basis(k0, pol, a1, a2) ==
    The({
        IF pol = "lab"
        THEN LET x   == VInt(1, 0, 0)
                 ref == IF RLt(<<19, 20>>, RAbs(VDot(x, k)[1]))
                        THEN VInt(0, 1, 0) ELSE x
             IN  BasisFrom(k, VSub(ref, VMulC(VDot(ref, k), k)))
        ELSE IF pol = "pol_in"
        THEN IF a1 = NoneAxis
             THEN Raised("ValueError: basis='pol_in' requires c1")
             ELSE BasisFrom(k, o_axis_Otype(k, a1))
        ELSE IF pol = "pol_out"
        THEN IF a2 = NoneAxis
             THEN Raised("ValueError: basis='pol_out' requires c2")
             ELSE BasisFrom(k, o_axis_Otype(k, a2))
        ELSE Raised("ValueError: basis must be one of: lab, pol_in, pol_out")
        : k \in {_normalize(k0)} })

\* The mutation of the Stokes parameters in which S3 takes the real part of
\* Eu conj(Ev), as S2 does.
StokesOf_S3FromReal(Eu, Ev) ==
    The({ <<RAdd(au, av), RSub(au, av), RMul(RInt(2), cr[1]), RMul(RInt(2), cr[1])>>
          : au \in {CAbs2(Eu)}, av \in {CAbs2(Ev)}, cr \in {CMul(Eu, CConj(Ev))} })

\* (S0, S1, S2, S3) from the transverse components Eu, Ev
StokesOf(Eu, Ev) ==
    The({ <<RAdd(au, av), RSub(au, av), RMul(RInt(2), cr[1]), RMul(RInt(2), cr[2])>>
          : au \in {CAbs2(Eu)}, av \in {CAbs2(Ev)}, cr \in {CMul(Eu, CConj(Ev))} })

\* The mutation of stokes_from_E in which S2 is Re(Eu conj(Ev)), without the
\* factor 2.
stokes_from_E_HalvedS2(E, k0, u, v) ==
    The({ The({ The({ <<S[1], S[2], RMul(<<1, 2>>, S[3]), S[4]>>
                      : S \in {StokesOf(VDot(u, Et), VDot(v, Et))} })
        : Et \in {VSub(E, VMulC(VDot(E, k), k))} })
        : k \in {_normalize(k0)} })

\* (S0, S1, S2, S3) of the field E in the transverse basis (u, v)
stokes_from_E(E, k0, u, v) ==
    The({ The({ StokesOf(VDot(u, Et), VDot(v, Et))
        : Et \in {VSub(E, VMulC(VDot(E, k), k))} })
        : k \in {_normalize(k0)} })

\* Stage labels: "POL_in", and "el#<i>_<type>" for the element at index i
POL_in == [name |-> "POL_in", i |-> 0, type |-> ""]

\* The mutation of the element label that drops the element's index.
ElLabel_NoIndex(i, ty) == [name |-> "el", i |-> 0, type |-> ty]

ElLabel(i, ty) == [name |-> "el", i |-> i, type |-> ty]

StokesPoint(label, wl_key, S) ==
    [label |-> label, wl_key |-> wl_key,
     S0 |-> S[1], S1 |-> S[2], S2 |-> S[3], S3 |-> S[4]]

\* The mutation of the loop header in which the elements are visited from the
\* last to the first.
StackAt_Reversed(stk, n) == stk[Len(stk) + 1 - n]

\* for i, el in enumerate(stack): the element of pass n (i = n - 1)
StackAt(stk, n) == stk[n]

\* The mutation of the start of a wavelength's pass in which the field is
\* carried over from the previous wavelength.
KeyStart_CarriedOver(E0, Elast) == Elast

\* E = E0.copy(): every wavelength restarts from the input-polarizer field E0,
\* whatever field Elast the previous wavelength ended with.
KeyStart(E0, Elast) == E0

\* The mutation of the trace's step in which the point is taken from the
\* field in front of the element.
TraceStep_PointInFront(prev, kv, u, v, el, i, th, ph, wl_key) ==
    The({ IF ~step.ok THEN step
          ELSE The({ Returned(<<step.val,
                                Append(prev[2],
                                       StokesPoint(ElLabel(i, el.type), wl_key, S))>>)
                     : S \in {stokes_from_E(prev[1], kv, u, v)} })
          : step \in {KeyElement(prev[1], kv, el, th, ph, wl_key)} })

\* One pass of the inner loop of the trace, on <<E, points so far>>
TraceStep(prev, kv, u, v, el, i, th, ph, wl_key) ==
    The({ IF ~step.ok THEN step
          ELSE The({ Returned(<<step.val,
                                Append(prev[2],
                                       StokesPoint(ElLabel(i, el.type), wl_key, S))>>)
                     : S \in {stokes_from_E(step.val, kv, u, v)} })
          : step \in {KeyElement(prev[1], kv, el, th, ph, wl_key)} })

\* The inner loop of the trace for one key, started with field Ein: the final
\* field and the points appended, or the raise that ended it.
TraceKey(Ein, kv, u, v, stk, th, ph, wl_key) ==
    LET inner[n \in 0..Len(stk)] ==
            IF n = 0 THEN Returned(<<Ein, <<>>>>)
            ELSE The({ IF ~prev.ok THEN prev
                       ELSE TraceStep(prev.val, kv, u, v, StackAt(stk, n), n - 1,
                                      th, ph, wl_key)
                       : prev \in {inner[n - 1]} })
    IN  inner[Len(stk)]

\* The two loops over wl_keys, given the basis (u, v) and the field E0 after
\* the input polarizer.  outer[j] = <<last field, out>> after j keys.
TraceLoops(E0, kv, u, v, stk, th, ph, keys) ==
    LET pin == The({ [j \in 1..Len(keys) |-> StokesPoint(POL_in, keys[j], S)]
                     : S \in {stokes_from_E(E0, kv, u, v)} })
        outer[j \in 0..Len(keys)] ==
            IF j = 0 THEN Returned(<<E0, pin>>)
            ELSE The({ IF ~prev.ok THEN prev
                       ELSE The({ IF ~kp.ok THEN kp
                                  ELSE Returned(<<kp.val[1], prev.val[2] \o kp.val[2]>>)
                                  : kp \in {TraceKey(KeyStart(E0, prev.val[1]), kv, u, v,
                                                     stk, th, ph, keys[j])} })
                       : prev \in {outer[j - 1]} })
    IN  The({ IF ~res.ok THEN res ELSE Returned(res.val[2])
              : res \in {outer[Len(keys)]} })

trace_stokes_per_wavelength(th, ph, stk, a1, a2, pol, keys) ==
    The({ The({
        IF ~uv.ok THEN uv
        ELSE The({ TraceLoops(E0, kv, uv.val[1], uv.val[2], stk, th, ph, keys)
                   : E0 \in {o_axis_Otype(kv, a1)} })
        : uv \in {transverse_basis(kv, pol, a1, a2)} })
        : kv \in {k_hat(th, ph)} })

\* The mutation of the grouping that keeps the label of every point, seen
\* before or not.
LabelsOf_Every(pts) == [n \in 1..Len(pts) |-> pts[n].label]

\* The labels of pts in order of first occurrence
LabelsOf(pts) ==
    LET labs[n \in 0..Len(pts)] ==
            IF n = 0 THEN <<>>
            ELSE The({ IF \E q \in 1..Len(prev) : prev[q] = pts[n].label
                       THEN prev ELSE Append(prev, pts[n].label)
                       : prev \in {labs[n - 1]} })
    IN  labs[Len(pts)]

\* The mutation of the running sums that adds the point's Stokes parameters
\* without its weight.
AddWeighted_Plain(t, w, p) ==
    <<RAdd(t[1], p.S0), RAdd(t[2], p.S1), RAdd(t[3], p.S2), RAdd(t[4], p.S3)>>

\* S0t, S1t, S2t, S3t plus w times the Stokes parameters of point p
AddWeighted(t, w, p) ==
    <<RAdd(t[1], RMul(w, p.S0)), RAdd(t[2], RMul(w, p.S1)),
      RAdd(t[3], RMul(w, p.S2)), RAdd(t[4], RMul(w, p.S3))>>

\* One row of trace_stokes_white: the weighted Stokes sums over the points
\* that carry label lab, normalized by the summed S0.
WhiteRow(pts, lab, wmap) ==
    LET tot[n \in 0..Len(pts)] ==
            IF n = 0 THEN <<R0, R0, R0, R0>>
            ELSE The({ IF pts[n].label # lab THEN prev
                       ELSE AddWeighted(prev, RInt(Get(wmap, pts[n].wl_key, 1)), pts[n])
                       : prev \in {tot[n - 1]} })
    IN  The({ [label |-> lab, S0_sum |-> t[1],
               s1 |-> DivGuarded(t[2], t[1]),
               s2 |-> DivGuarded(t[3], t[1]),
               s3 |-> DivGuarded(t[4], t[1])]
              : t \in {tot[Len(pts)]} })

\* wl_weights = None takes ips.WL_WEIGHTS as it is when the call is made.
trace_stokes_white(th, ph, stk, a1, a2, pol, keys, wopt) ==
    The({ IF ~pts.ok THEN pts
          ELSE The({ Returned([r \in 1..Len(labels) |->
                        WhiteRow(pts.val, labels[r],
                                 IF wopt = NoneWeights THEN WL_WEIGHTS ELSE wopt)])
                     : labels \in {LabelsOf(pts.val)} })
          : pts \in {trace_stokes_per_wavelength(th, ph, stk, a1, a2, pol, keys)} })

(***************************************************************************)
(* Inputs of the model.  Thickness 1248975 nm with |ne - no| = 1/2 is      *)
(* 5551, 4575 and 4095 quarter waves at 450, 546 and 610 nm: three quarter *)
(* waves modulo a full turn at each primary, times the dispersion scale.   *)
(***************************************************************************)
MaxStack == 2
MaxKeys == 2
MaxWeight == 2

NO_BASE == <<3, 2>>
X_AXIS == VInt(1, 0, 0)
Y_AXIS == VInt(0, 1, 0)
Z_AXIS == VInt(0, 0, 1)
DIAG_AXIS == VInt(1, 1, 0)

el_LC == [type |-> "LC", axis |-> X_AXIS, d |-> RInt(1248975),
          no |-> NO_BASE, ne |-> RInt(2)]
el_A == [type |-> "A", axis |-> DIAG_AXIS, d |-> RInt(1248975),
         no |-> NO_BASE, ne |-> RInt(2)]
el_C == [type |-> "C", axis |-> Z_AXIS, d |-> RInt(1248975),
         no |-> NO_BASE, ne |-> RInt(1)]
el_TAC == [type |-> "TAC", axis |-> DIAG_AXIS, d |-> RInt(1248975),
           no |-> NO_BASE, ne |-> RInt(2)]

ValidTypes == {"A", "C", "LC"}
Elements == {el_LC, el_A, el_C, el_TAC}

SeqsUpTo(S, n) == UNION {[1..m -> S] : m \in 0..n}
Stacks == SeqsUpTo(Elements, MaxStack)
WhiteStacks == SeqsUpTo({el_A, el_TAC}, MaxStack)
TraceStacks == SeqsUpTo({el_LC, el_A, el_TAC}, MaxStack)
KeyTuples == SeqsUpTo(WlKeyNames, MaxKeys)
TraceKeys == SeqsUpTo({"B", "G"}, MaxKeys)
\* weight dictionaries: one weight on some of the keys, the other keys absent
WeightMaps ==
    {[wk \in S |-> wv] : S \in {{}, {"B"}, {"B", "G", "R"}}, wv \in 0..MaxWeight}
PolAxes == {X_AXIS, Y_AXIS}
ModeArgs == DispModes \cup {"bogus"}
BasisArgs == {"lab", "pol_in", "pol_out", "bogus"}

HasBadElement(stk) == \E i \in 1..Len(stk) : stk[i].type \notin ValidTypes
NoDuplicates(s) == \A i, j \in 1..Len(s) : s[i] = s[j] => i = j

(***************************************************************************)
(* The caller binds the arguments of one call, then the call runs.         *)
(***************************************************************************)
InitIdle ==
    /\ WL_KEYS = Import_WL_KEYS
    /\ WL_WEIGHTS = Import_WL_WEIGHTS
    /\ DN_SCALE = DN_SCALE_MATCHED
    /\ stack = <<>> /\ c1 = X_AXIS /\ c2 = Y_AXIS
    /\ theta = 0 /\ phi = 0
    /\ lam_arg = WL_NM["G"]
    /\ disp_mode = "flat"
    /\ wl_keys = Import_WL_KEYS
    /\ wl_weights = NoneWeights
    /\ basis = "lab"
    /\ fn = "" /\ pc = "idle"
    /\ ret = NoRet
    /\ hist = <<>>
    /\ scale_dict = [B |-> R1, G |-> R1, R |-> R1]
    /\ grid = <<0, 5, 180>>
    /\ sweep = [at |-> "none"]
    /\ loop = [at |-> "none"]

\* The caller of f binds f's arguments; the arguments f does not take are
\* left as they are.
Bind(f, stk, a1, a2, th, ph) ==
    /\ pc = "idle"
    /\ fn' = f /\ pc' = "ready"
    /\ stack' = stk /\ c1' = a1 /\ c2' = a2
    /\ theta' = th /\ phi' = ph
    /\ UNCHANGED <<globals, ret, hist, scale_dict, grid, locals>>

Bind_mono(f, stk, a2, mode, key) ==
    /\ Bind(f, stk, X_AXIS, a2, 0, 0)
    /\ lam_arg' = WL_NM[key] /\ disp_mode' = mode
    /\ UNCHANGED <<wl_keys, wl_weights, basis>>

Bind_W(stk, mode, keys, wmap) ==
    /\ Bind("Tleak_stack_W", stk, X_AXIS, Y_AXIS, 0, 0)
    /\ disp_mode' = mode /\ wl_keys' = keys /\ wl_weights' = wmap
    /\ UNCHANGED <<lam_arg, basis>>

Bind_CR_W(f, stk, a2, ph, mode) ==
    /\ Bind(f, stk, X_AXIS, a2, 0, ph)
    /\ disp_mode' = mode
    /\ UNCHANGED <<lam_arg, wl_keys, wl_weights, basis>>

Bind_basis(th, a1, a2, pol) ==
    /\ Bind("transverse_basis", <<>>, a1, a2, th, 0)
    /\ basis' = pol
    /\ UNCHANGED <<lam_arg, disp_mode, wl_keys, wl_weights>>

Bind_single(stk, a2, key) ==
    /\ Bind("Tleak_single_lambda", stk, X_AXIS, a2, 0, 0)
    /\ wl_keys' = <<key>>
    /\ UNCHANGED <<lam_arg, disp_mode, wl_weights, basis>>

Bind_trace(f, stk, a2, pol, keys, wopt) ==
    /\ Bind(f, stk, X_AXIS, a2, 0, 0)
    /\ basis' = pol /\ wl_keys' = keys /\ wl_weights' = wopt
    /\ UNCHANGED <<lam_arg, disp_mode>>

\* The mutation of a call's end in which the call has overwritten each
\* element's ne with its no.
Finish_WritesStack(result) ==
    /\ ret' = result
    /\ pc' = "done"
    /\ stack' = [n \in 1..Len(stack) |-> [stack[n] EXCEPT !.ne = stack[n].no]]
    /\ UNCHANGED <<globals, c1, c2, theta, phi, lam_arg, disp_mode, wl_keys,
                   wl_weights, basis, fn, hist, scale_dict, grid, locals>>

\* A call reads its arguments and the module attributes and assigns none of
\* them; its outcome is what it returns or raises.
Finish(result) ==
    /\ ret' = result
    /\ pc' = "done"
    /\ UNCHANGED <<globals, arguments, locals, fn, hist>>

Call_Tleak_stack_mono ==
    /\ pc = "ready" /\ fn = "Tleak_stack_mono"
    /\ Finish(Tleak_stack_mono(theta, phi, stack, c1, c2, lam_arg, disp_mode))

Call_CR_mono ==
    /\ pc = "ready" /\ fn = "CR_mono"
    /\ Finish(CR_mono(theta, phi, stack, c1, c2, lam_arg, disp_mode))

Call_Tleak_stack_W ==
    /\ pc = "ready" /\ fn = "Tleak_stack_W"
    /\ Finish(Tleak_stack_W(theta, phi, stack, c1, c2, disp_mode, wl_keys, wl_weights))

Call_CR_W ==
    /\ pc = "ready" /\ fn = "CR_W"
    /\ Finish(CR_W(theta, phi, stack, c1, c2, disp_mode))

\* compute_CR_grid_W(stack, c1, c2, disp_mode, theta_max, dtheta, dphi)
Call_compute_CR_grid_W ==
    /\ pc = "ready" /\ fn = "compute_CR_grid_W"
    /\ Finish(compute_CR_grid_W(stack, c1, c2, disp_mode, grid[1], grid[2], grid[3]))

Call_transverse_basis ==
    /\ pc = "ready" /\ fn = "transverse_basis"
    /\ Finish(transverse_basis(k_hat(theta, phi), basis, c1, c2))

Call_Tleak_single_lambda ==
    /\ pc = "ready" /\ fn = "Tleak_single_lambda"
    /\ Finish(Tleak_single_lambda(theta, phi, stack, c1, c2, wl_keys[1]))

Call_trace_stokes_per_wavelength ==
    /\ pc = "ready" /\ fn = "trace_stokes_per_wavelength"
    /\ Finish(trace_stokes_per_wavelength(theta, phi, stack, c1, c2, basis, wl_keys))

Call_trace_stokes_white ==
    /\ pc = "ready" /\ fn = "trace_stokes_white"
    /\ Finish(trace_stokes_white(theta, phi, stack, c1, c2, basis, wl_keys,
                                 wl_weights))

(***************************************************************************)
(* Leakage and contrast calls                                              *)
(***************************************************************************)
BindLeak ==
    \/ \E stk \in Stacks, a2 \in PolAxes, mode \in ModeArgs, key \in WlKeyNames :
          Bind_mono("Tleak_stack_mono", stk, a2, mode, key)
    \/ \E stk \in WhiteStacks, mode \in {"flat", "bogus"} :
          Bind_mono("CR_mono", stk, Y_AXIS, mode, "G")
    \/ \E stk \in WhiteStacks, mode \in {"mismatched", "bogus"},
          keys \in KeyTuples, wmap \in WeightMaps :
          Bind_W(stk, mode, keys, wmap)
    \/ \E stk \in WhiteStacks, a2 \in PolAxes, mode \in {"flat", "mismatched", "bogus"} :
          Bind_CR_W("CR_W", stk, a2, 0, mode)
    \/ \E stk \in WhiteStacks, mode \in {"mismatched", "bogus"} :
          Bind_CR_W("compute_CR_grid_W", stk, Y_AXIS, 0, mode)

NextLeak ==
    \/ BindLeak
    \/ Call_Tleak_stack_mono
    \/ Call_CR_mono
    \/ Call_Tleak_stack_W
    \/ Call_CR_W
    \/ Call_compute_CR_grid_W

SpecLeak == InitIdle /\ [][NextLeak]_vars

(***************************************************************************)
(* Stokes-trace calls                                                      *)
(***************************************************************************)
BindTrace ==
    \/ \E th \in {0, 90}, a1 \in PolAxes \cup {NoneAxis},
          a2 \in PolAxes \cup {NoneAxis}, pol \in BasisArgs :
          Bind_basis(th, a1, a2, pol)
    \/ \E stk \in TraceStacks, a2 \in PolAxes, key \in WlKeyNames :
          Bind_single(stk, a2, key)
    \/ \E stk \in TraceStacks, pc2 \in {<<"lab", Y_AXIS>>, <<"pol_in", NoneAxis>>,
                                        <<"pol_out", NoneAxis>>, <<"bogus", Y_AXIS>>},
          keys \in TraceKeys :
          Bind_trace("trace_stokes_per_wavelength", stk, pc2[2], pc2[1], keys,
                     NoneWeights)
    \/ \E stk \in {<<>>, <<el_A>>, <<el_TAC>>}, keys \in {<<>>, <<"B", "G">>},
          wopt \in {NoneWeights, [B |-> 2]} :
          Bind_trace("trace_stokes_white", stk, Y_AXIS, "lab", keys, wopt)

NextTrace ==
    \/ BindTrace
    \/ Call_transverse_basis
    \/ Call_Tleak_single_lambda
    \/ Call_trace_stokes_per_wavelength
    \/ Call_trace_stokes_white

SpecTrace == InitIdle /\ [][NextTrace]_vars

(***************************************************************************)
(* Two calls with assignments to the module attributes between them        *)
(***************************************************************************)
CallRecord ==
    [fn |-> fn, stack |-> stack, c1 |-> c1, c2 |-> c2, theta |-> theta,
     phi |-> phi, lam_arg |-> lam_arg, disp_mode |-> disp_mode,
     wl_keys |-> wl_keys, wl_weights |-> wl_weights, basis |-> basis,
     ret |-> ret]

\* The first call is over; the caller keeps what it returned.
Return ==
    /\ pc = "done" /\ hist = <<>>
    /\ hist' = <<CallRecord>>
    /\ pc' = "idle"
    /\ UNCHANGED <<globals, arguments, locals, fn, ret>>

\* Between the calls a caller assigns the module attributes, as
\* generate_examples.py does with WL_KEYS and DN_SCALE of the engine module
\* it imports.
Assign ==
    /\ pc = "idle" /\ hist # <<>>
    /\ \E keys \in {Import_WL_KEYS, <<"G">>},
          wmap \in {Import_WL_WEIGHTS, [B |-> 0, G |-> 1, R |-> 0]},
          tab \in {DN_SCALE_MATCHED, DN_SCALE_MISMATCHED} :
          /\ WL_KEYS' = keys /\ WL_WEIGHTS' = wmap /\ DN_SCALE' = tab
    /\ UNCHANGED <<arguments, locals, fn, pc, ret, hist>>

BindPure ==
    \/ \E mode \in {"flat", "matched", "current"}, key \in {"B", "G"} :
          Bind_mono("Tleak_stack_mono", <<el_A>>, Y_AXIS, mode, key)
    \/ \E mode \in {"mismatched", "current"} :
          Bind_W(<<el_A>>, mode, <<"B", "G">>, [B |-> 2])
    \/ \E wopt \in {NoneWeights, [B |-> 2]} :
          Bind_trace("trace_stokes_white", <<el_A>>, Y_AXIS, "lab", <<"B", "G">>, wopt)

NextPure ==
    \/ BindPure
    \/ Call_Tleak_stack_mono
    \/ Call_Tleak_stack_W
    \/ Call_trace_stokes_white
    \/ Return
    \/ Assign

SpecPure == InitIdle /\ [][NextPure]_vars

(***************************************************************************)
(* Every call of the model                                                 *)
(***************************************************************************)
Init == InitIdle
Next == NextLeak \/ NextTrace
Spec == Init /\ [][Next]_vars

(***************************************************************************)
(* Properties                                                              *)
(***************************************************************************)
Done(f) == pc = "done" /\ fn = f

\* the weight the code gives a key: wl_weights.get(k, 1.0)
WeightOf(wmap, key) == IF key \in DOMAIN wmap THEN wmap[key] ELSE 1

\* the sum of a sequence of rationals
RSumSeq(s) ==
    LET acc[n \in 0..Len(s)] == IF n = 0 THEN R0 ELSE RAdd(acc[n - 1], s[n])
    IN  acc[Len(s)]

\* (sum over keys of w_k * T_k) / (sum over keys of w_k), T_k the monochromatic
\* leakage of the bound stack at the wavelength of key k, in direction (th, ph)
MeanLeak(th, ph, keys, wmap) ==
    RDiv(RSumSeq([n \in 1..Len(keys) |->
                    RMul(RInt(WeightOf(wmap, keys[n])),
                         Tleak_stack_mono(th, ph, stack, c1, c2, WL_NM[keys[n]],
                                          disp_mode).val)]),
         RSumSeq([n \in 1..Len(keys) |-> RInt(WeightOf(wmap, keys[n]))]))

C2_LeakageThenContrast ==
    /\ (Done("CR_W") /\ ret.ok)
       => ret.val = CR_from_Tleak(MeanLeak(theta, phi, Import_WL_KEYS,
                                           Import_WL_WEIGHTS))
    /\ (Done("compute_CR_grid_W") /\ ret.ok)
       => \A i \in 1..Len(ret.val[1]), j \in 1..Len(ret.val[2]) :
             ret.val[3][i][j] =
                CR_from_Tleak(MeanLeak(ret.val[1][i], ret.val[2][j],
                                       Import_WL_KEYS, Import_WL_WEIGHTS))

\* CR_W has returned 2 = 1 / (mean leakage 1/2) for a stack whose leakages at
\* B, G and R are 0, 1/2 and 1: the contrasts at G and R are 2 and 1 and the
\* contrast at B is 1/eps, so no weighted mean of contrasts is 2.
C2_Witness ==
    /\ Done("CR_W") /\ ret.ok
    /\ stack = <<el_A>> /\ disp_mode = "mismatched" /\ c2 = Y_AXIS
    /\ ret.val = <<2, 1>>
    /\ Tleak_stack_mono(theta, phi, stack, c1, c2, WL_NM["B"], disp_mode).val = R0
    /\ Tleak_stack_mono(theta, phi, stack, c1, c2, WL_NM["G"], disp_mode).val = <<1, 2>>
    /\ Tleak_stack_mono(theta, phi, stack, c1, c2, WL_NM["R"], disp_mode).val = R1

\* C7: every call of Tleak_stack_mono, Tleak_stack_W, CR_mono or CR_W with a
\* dispersion mode outside {flat, matched, mismatched, current} raises.
C7_UnknownModeRaises ==
    (/\ pc = "done"
     /\ fn \in {"Tleak_stack_mono", "Tleak_stack_W", "CR_mono", "CR_W"}
     /\ disp_mode \notin DispModes)
    => ~ret.ok

\* The field behind element i of the bound stack at key wl_key: the elements
\* stack[1], ..., stack[i] applied in index order to the field behind the
\* input polarizer.
FieldBehind(i, wl_key) ==
    LET kv == k_hat(theta, phi)
        field[n \in 0..Len(stack)] ==
            IF n = 0 THEN o_axis_Otype(kv, c1)
            ELSE KeyElement(field[n - 1], kv, stack[n], theta, phi, wl_key).val
    IN  field[i]

\* The Stokes point the trace holds for element i (counted from 1) at wl_key
PointBehind(i, wl_key) ==
    LET kv == k_hat(theta, phi)
        uv == transverse_basis(kv, basis, c1, c2).val
    IN  StokesPoint([name |-> "el", i |-> i - 1, type |-> stack[i].type], wl_key,
                    stokes_from_E(FieldBehind(i, wl_key), kv, uv[1], uv[2]))

\* C3: in a returned trace the point of stack element i at a key is the Stokes
\* vector of the field obtained by applying stack[1..i] in index order, it
\* stands behind the points of the elements before it, and the leakage
\* Tleak_single_lambda returns is that of the field behind the last element.
C3_ElementsInStackOrder ==
    /\ (Done("trace_stokes_per_wavelength") /\ ret.ok)
       => /\ \A j \in 1..Len(wl_keys), i \in 1..Len(stack) :
                ret.val[Len(wl_keys) + (j - 1) * Len(stack) + i]
                    = PointBehind(i, wl_keys[j])
          /\ NoDuplicates(wl_keys)
             => \A a, b \in DOMAIN ret.val :
                   (/\ ret.val[a].wl_key = ret.val[b].wl_key
                    /\ ret.val[a].label.name = "el"
                    /\ ret.val[b].label.name = "el"
                    /\ ret.val[b].label.i = ret.val[a].label.i + 1)
                   => a < b
    /\ (Done("Tleak_single_lambda") /\ ret.ok)
       => ret.val = CAbs2(VVdot(o_axis_Otype(k_hat(theta, phi), c2),
                                FieldBehind(Len(stack), wl_keys[1])))

\* A returned trace of the stack [LC, A] at G: behind the A-plate the light is
\* circular (S3 # 0), where the stack [A, LC] leaves it linear.
C3_Witness ==
    /\ Done("trace_stokes_per_wavelength") /\ ret.ok
    /\ stack = <<el_LC, el_A>> /\ wl_keys = <<"G">> /\ basis = "lab"
    /\ ret.val[3].label = [name |-> "el", i |-> 1, type |-> "A"]
    /\ ret.val[3].S3 # R0
    /\ ret.val[2].S3 = R0

\* C4: a trace returned for a stack of n valid elements and m distinct keys has
\* m * (n + 1) points, and every pair of a label (POL_in, or the index and type
\* of an element) and a key stands in it exactly once.
C4_OnePointPerLabelAndKey ==
    (/\ Done("trace_stokes_per_wavelength") /\ ret.ok
     /\ ~HasBadElement(stack) /\ NoDuplicates(wl_keys))
    => /\ Len(ret.val) = Len(wl_keys) * (Len(stack) + 1)
       /\ \A j \in 1..Len(wl_keys) :
            \A lab \in {[name |-> "POL_in", i |-> 0, type |-> ""]} \cup
                       {[name |-> "el", i |-> i - 1, type |-> stack[i].type]
                          : i \in 1..Len(stack)} :
               Cardinality({p \in DOMAIN ret.val :
                              /\ ret.val[p].label = lab
                              /\ ret.val[p].wl_key = wl_keys[j]}) = 1

\* A trace of two elements of the same type at two keys: six points
C4_Witness ==
    /\ Done("trace_stokes_per_wavelength") /\ ret.ok
    /\ stack = <<el_A, el_A>> /\ wl_keys = <<"B", "G">>
    /\ Len(ret.val) = 6

\* The points of pts whose key is w, in order
PointsOf(pts, w) ==
    LET HasKey(p) == p.wl_key = w
    IN  SelectSeq(pts, HasKey)

\* C5: the points a returned trace holds for a key are the points the trace of
\* that key alone holds, in the same order, whatever other keys were traced.
C5_KeysIndependent ==
    (Done("trace_stokes_per_wavelength") /\ ret.ok /\ NoDuplicates(wl_keys))
    => \A j \in 1..Len(wl_keys) :
          PointsOf(ret.val, wl_keys[j])
            = trace_stokes_per_wavelength(theta, phi, stack, c1, c2, basis,
                                          <<wl_keys[j]>>).val

\* Two keys traced through a stack that changes the field at the first key:
\* the second key's pass starts behind a pass that left another field.
C5_Witness ==
    /\ Done("trace_stokes_per_wavelength") /\ ret.ok
    /\ Len(wl_keys) = 2 /\ NoDuplicates(wl_keys)
    /\ Len(stack) = 1
    /\ ret.val[3].wl_key = wl_keys[1]
    /\ ret.val[3].label.name = "el"
    /\ ret.val[3].S1 # ret.val[1].S1
    /\ ret.val[4].wl_key = wl_keys[2]

\* C6: every call of Tleak_single_lambda or trace_stokes_per_wavelength with a
\* stack holding an element whose type is none of LC, A, C raises.
C6_BadElementRaises ==
    (/\ pc = "done"
     /\ fn \in {"Tleak_single_lambda", "trace_stokes_per_wavelength"}
     /\ HasBadElement(stack))
    => ~ret.ok

\* C8: transverse_basis raises for pol_in without c1, for pol_out without c2
\* and for any basis other than lab, pol_in, pol_out; it returns for lab, for
\* pol_in with c1 and for pol_out with c2.
C8_BasisPolicies ==
    Done("transverse_basis")
    => /\ (basis = "pol_in" /\ c1 = NoneAxis)
          => (~ret.ok /\ ret.err = "ValueError: basis='pol_in' requires c1")
       /\ (basis = "pol_out" /\ c2 = NoneAxis)
          => (~ret.ok /\ ret.err = "ValueError: basis='pol_out' requires c2")
       /\ basis \notin {"lab", "pol_in", "pol_out"}
          => (~ret.ok /\ ret.err = "ValueError: basis must be one of: lab, pol_in, pol_out")
       /\ basis = "lab" => ret.ok
       /\ (basis = "pol_in" /\ c1 # NoneAxis) => ret.ok
       /\ (basis = "pol_out" /\ c2 # NoneAxis) => ret.ok

\* pol_in has returned a basis with c1 given and c2 absent
C8_Witness ==
    /\ Done("transverse_basis")
    /\ basis = "pol_in" /\ c1 # NoneAxis /\ c2 = NoneAxis
    /\ ret.ok

\* The call that has just ended had the arguments of the recorded call h
SameCall(h) ==
    /\ h.fn = fn /\ h.stack = stack /\ h.c1 = c1 /\ h.c2 = c2
    /\ h.theta = theta /\ h.phi = phi /\ h.lam_arg = lam_arg
    /\ h.disp_mode = disp_mode /\ h.wl_keys = wl_keys
    /\ h.wl_weights = wl_weights /\ h.basis = basis

C10_StackReadOnly ==
    [][pc = "ready" => (stack' = stack /\ c1' = c1 /\ c2' = c2)]_vars

\* A trace that raised at the second element of its stack has ended
C10_Witness ==
    /\ Done("trace_stokes_per_wavelength")
    /\ stack = <<el_A, el_TAC>>
    /\ ~ret.ok

(***************************************************************************)
(* Direct calls of the dispersion helpers                                  *)
(***************************************************************************)
MaxScale == 3

\* wavelengths (nm) below B, at B, inside (B, G), at G, inside (G, R), at R
\* and above R
InterpLams == {RInt(n) : n \in {400, 450, 474, 498, 546, 578, 610, 700}}

\* scale dictionaries: whole scales on some of the keys B, G, R
ScaleDicts ==
    UNION {[S -> {RInt(n) : n \in 1..MaxScale}] : S \in SUBSET {"B", "G", "R"}}

Bind_interp(lam, dict) ==
    /\ pc = "idle"
    /\ fn' = "_interp_scale" /\ pc' = "ready"
    /\ lam_arg' = lam /\ scale_dict' = dict
    /\ UNCHANGED <<globals, locals, ret, hist, stack, c1, c2, theta, phi,
                   disp_mode, wl_keys, wl_weights, basis, grid>>

Call__interp_scale ==
    /\ pc = "ready" /\ fn = "_interp_scale"
    /\ Finish(Returned(_interp_scale(lam_arg, scale_dict)))

\* ne_no_for_lambda(el, lam_nm, disp_mode): el is bound as the one-element stack
Bind_ne_no(el, lam, mode) ==
    /\ pc = "idle"
    /\ fn' = "ne_no_for_lambda" /\ pc' = "ready"
    /\ stack' = <<el>> /\ lam_arg' = lam /\ disp_mode' = mode
    /\ UNCHANGED <<globals, locals, ret, hist, c1, c2, theta, phi, wl_keys,
                   wl_weights, basis, scale_dict, grid>>

Call_ne_no_for_lambda ==
    /\ pc = "ready" /\ fn = "ne_no_for_lambda"
    /\ Finish(ne_no_for_lambda(stack[1], lam_arg, disp_mode))

BindDisp ==
    \/ \E lam \in InterpLams, dict \in ScaleDicts : Bind_interp(lam, dict)
    \/ \E el \in Elements, lam \in InterpLams, mode \in ModeArgs :
          Bind_ne_no(el, lam, mode)

NextDisp ==
    \/ BindDisp
    \/ Call__interp_scale
    \/ Call_ne_no_for_lambda

SpecDisp == InitIdle /\ [][NextDisp]_vars

\* the scale a dictionary holds for a key, 1 when it holds none
ScaleAt(dict, key) == IF key \in DOMAIN dict THEN dict[key] ELSE R1

\* y lies between a and b, ends included
RBetween(a, y, b) == (RLe(a, y) /\ RLe(y, b)) \/ (RLe(b, y) /\ RLe(y, a))

\* y is the value at x of the straight line through (x1, y1) and (x2, y2):
\* y * (x2 - x1) = y1 * (x2 - x) + y2 * (x - x1)
OnLine(x, y, x1, y1, x2, y2) ==
    RMul(y, RSub(x2, x1)) = RAdd(RMul(y1, RSub(x2, x)), RMul(y2, RSub(x, x1)))

\* C11: _interp_scale returns the B scale at and below 450 nm, the G scale at
\* 546 nm, the R scale at and above 610 nm, and in between the value of the
\* straight line through the two neighbouring primaries, which lies between
\* their scales; a key the dictionary lacks counts as scale 1.
C11_PiecewiseLinearClamped ==
    Done("_interp_scale") =>
        LET x  == lam_arg
            y  == ret.val
            sb == ScaleAt(scale_dict, "B")
            sg == ScaleAt(scale_dict, "G")
            sr == ScaleAt(scale_dict, "R")
        IN  /\ ret.ok
            /\ RLe(x, RInt(450)) => y = sb
            /\ x = RInt(546) => y = sg
            /\ RLe(RInt(610), x) => y = sr
            /\ (RLt(RInt(450), x) /\ RLt(x, RInt(546)))
               => (OnLine(x, y, RInt(450), sb, RInt(546), sg) /\ RBetween(sb, y, sg))
            /\ (RLt(RInt(546), x) /\ RLt(x, RInt(610)))
               => (OnLine(x, y, RInt(546), sg, RInt(610), sr) /\ RBetween(sg, y, sr))

\* Halfway between B (scale 3) and G (absent, scale 1) the scale is 2
C11_Witness ==
    /\ Done("_interp_scale")
    /\ lam_arg = RInt(498)
    /\ DOMAIN scale_dict = {"B", "R"}
    /\ scale_dict["B"] = RInt(3)
    /\ ret.val = RInt(2)

\* the table a valid dispersion mode stands for
TableOf(mode) ==
    CASE mode = "flat" -> [t \in {"LC", "A", "C", "TAC"} |-> [B |-> R1, G |-> R1, R |-> R1]]
      [] mode = "matched" -> DN_SCALE_MATCHED
      [] mode = "mismatched" -> DN_SCALE_MISMATCHED
      [] mode = "current" -> DN_SCALE

\* the scale of an element type at a wavelength under a table: the
\* interpolated scale of the type's entry, 1 for a type the table lacks
TypeScale(tab, ty, lam) ==
    IF ty \in DOMAIN tab THEN _interp_scale(lam, tab[ty]) ELSE R1

\* C20: for every element, wavelength and valid dispersion mode
\* ne_no_for_lambda returns the ordinary index unchanged and the extraordinary
\* index no + s * (ne - no), s the interpolated scale of the element's type
\* (1 for a type the table lacks); in mode flat it returns (no, ne).
C20_ScalesBirefringenceOnly ==
    (Done("ne_no_for_lambda") /\ disp_mode \in DispModes) =>
        LET el == stack[1]
            s  == TypeScale(TableOf(disp_mode), el.type, lam_arg)
        IN  /\ ret.ok
            /\ ret.val[1] = el.no
            /\ ret.val[2] = RAdd(el.no, RMul(s, RSub(el.ne, el.no)))
            /\ disp_mode = "flat" => ret.val = <<el.no, el.ne>>

\* An LC element (no = 3/2, ne = 2) halfway between B and G under the matched
\* table (scales 2 and 1): s = 3/2 and the extraordinary index is 9/4.
C20_Witness ==
    /\ Done("ne_no_for_lambda")
    /\ stack = <<el_LC>> /\ disp_mode = "matched" /\ lam_arg = RInt(498)
    /\ ret.val = <<<<3, 2>>, <<9, 4>>>>

(***************************************************************************)
(* The angular grids                                                       *)
(***************************************************************************)
\* compute_CR_grid_mono: CR_mono at every (theta, phi) of the grid, row by row.
compute_CR_grid_mono(stk, a1, a2, lam_nm, mode, theta_max, dtheta, dphi) ==
    The({ The({ GridResult(thetas, phis, cellAt)
        : cellAt \in {[n \in 1..(Len(thetas) * Len(phis)) |->
                         CR_mono(thetas[((n - 1) \div Len(phis)) + 1],
                                 phis[((n - 1) % Len(phis)) + 1], stk, a1, a2,
                                 lam_nm, mode)]} })
        : thetas \in {Arange(theta_max, dtheta)}, phis \in {Arange(360, dphi)} })

\* <<theta_max, dtheta, dphi>> in whole degrees; dtheta divides theta_max
\* except for theta_max = 135
GridArgs == {<<tm, dt, dp>> : tm \in {0, 90, 135, 180}, dt \in {90, 180},
                              dp \in {90, 180, 360}}

Bind_grid(f, stk, mode, key, g) ==
    /\ pc = "idle"
    /\ fn' = f /\ pc' = "ready"
    /\ stack' = stk /\ c1' = X_AXIS /\ c2' = Y_AXIS
    /\ disp_mode' = mode /\ lam_arg' = WL_NM[key] /\ grid' = g
    /\ UNCHANGED <<globals, locals, ret, hist, theta, phi, wl_keys, wl_weights,
                   basis, scale_dict>>

Call_compute_CR_grid_mono ==
    /\ pc = "ready" /\ fn = "compute_CR_grid_mono"
    /\ Finish(compute_CR_grid_mono(stack, c1, c2, lam_arg, disp_mode,
                                   grid[1], grid[2], grid[3]))

\* Off the normal only the empty stack is evaluated.
BindGrid ==
    \/ \E f \in {"compute_CR_grid_W", "compute_CR_grid_mono"},
          mode \in {"flat", "mismatched"}, key \in {"B", "G"}, g \in GridArgs :
          Bind_grid(f, <<>>, mode, key, g)
    \/ \E f \in {"compute_CR_grid_W", "compute_CR_grid_mono"},
          stk \in WhiteStacks, dt \in {90, 180}, dp \in {90, 180, 360} :
          Bind_grid(f, stk, "mismatched", "B", <<0, dt, dp>>)

NextGrid ==
    \/ BindGrid
    \/ Call_compute_CR_grid_W
    \/ Call_compute_CR_grid_mono

SpecGrid == InitIdle /\ [][NextGrid]_vars

GridDone == pc = "done" /\ fn \in {"compute_CR_grid_W", "compute_CR_grid_mono"} /\ ret.ok

\* C12 as stated: for a step dphi dividing 360 no phi sample of a returned
\* grid is 360, no two phi samples are equal modulo 360, and the theta
\* samples start at 0 and end at theta_max.
C12_PhiHalfOpen ==
    (GridDone /\ 360 % grid[3] = 0) =>
        LET thetas == ret.val[1]
            phis   == ret.val[2]
        IN  /\ \A j \in DOMAIN phis : phis[j] # 360
            /\ \A i, j \in DOMAIN phis : phis[i] % 360 = phis[j] % 360 => i = j
            /\ thetas[1] = 0 /\ thetas[Len(thetas)] = grid[1]

\* C12: for a step dphi dividing 360 the phi samples of a returned grid are
\* 0, dphi, ..., 360, both ends included, so that only the samples 0 and 360
\* are equal modulo 360; the theta samples are 0, dtheta, ... up to theta_max,
\* which is the last sample when dtheta divides it.
C12_PhiClosed ==
    (GridDone /\ 360 % grid[3] = 0) =>
        LET thetas == ret.val[1]
            phis   == ret.val[2]
        IN  /\ Len(phis) = (360 \div grid[3]) + 1
            /\ \A j \in DOMAIN phis : phis[j] = (j - 1) * grid[3]
            /\ phis[1] = 0 /\ phis[Len(phis)] = 360
            /\ \A i, j \in DOMAIN phis :
                  (i < j /\ phis[i] % 360 = phis[j] % 360)
                  => (i = 1 /\ j = Len(phis))
            /\ \A i \in DOMAIN thetas :
                  thetas[i] = (i - 1) * grid[2] /\ thetas[i] <= grid[1]
            /\ thetas[1] = 0
            /\ thetas[Len(thetas)] + grid[2] > grid[1]
            /\ grid[1] % grid[2] = 0 => thetas[Len(thetas)] = grid[1]

\* A returned mono grid with theta_max = 90 and both steps 90
C12_Witness ==
    /\ GridDone /\ fn = "compute_CR_grid_mono"
    /\ grid = <<90, 90, 90>>
    /\ ret.val[1] = <<0, 90>>
    /\ ret.val[2] = <<0, 90, 180, 270, 360>>

(***************************************************************************)
(* Zero denominators                                                       *)
(***************************************************************************)
\* StokesPoint.s1, .s2, .s3: S_i / max(S0, 1e-30)
s1(p) == DivGuarded(p.S1, p.S0)
s2(p) == DivGuarded(p.S2, p.S0)
s3(p) == DivGuarded(p.S3, p.S0)

\* StokesPoint.as_dict
as_dict(p) ==
    [label |-> p.label, wl_key |-> p.wl_key,
     S0 |-> p.S0, S1 |-> p.S1, S2 |-> p.S2, S3 |-> p.S3,
     s1 |-> s1(p), s2 |-> s2(p), s3 |-> s3(p)]

\* A trace call in the direction (th, ph) with input polarizer axis a1
Bind_trace_at(f, th, ph, stk, a1, a2, pol, keys, wopt) ==
    /\ Bind(f, stk, a1, a2, th, ph)
    /\ basis' = pol /\ wl_keys' = keys /\ wl_weights' = wopt
    /\ UNCHANGED <<lam_arg, disp_mode>>

\* [p.as_dict() for p in pts] on the points a trace returned
Call_as_dict ==
    /\ pc = "done" /\ fn = "trace_stokes_per_wavelength" /\ ret.ok
    /\ fn' = "as_dict"
    /\ ret' = Returned([n \in 1..Len(ret.val) |-> as_dict(ret.val[n])])
    /\ UNCHANGED <<globals, arguments, locals, pc, hist>>

\* Directions along a polarizer axis (theta = 90) leave no transverse field:
\* S0 = 0.  Weight maps with zero weights leave a zero weighted sum.
BindGuard ==
    \/ \E th \in {0, 90}, ph \in {0, 90}, a1 \in PolAxes,
          pol \in {"lab", "pol_in", "pol_out"}, keys \in TraceKeys :
          Bind_trace_at("trace_stokes_per_wavelength", th, ph, <<>>, a1, Y_AXIS,
                        pol, keys, NoneWeights)
    \/ \E stk \in {<<el_A>>, <<el_LC, el_A>>}, keys \in {<<"B">>, <<"B", "G">>} :
          Bind_trace_at("trace_stokes_per_wavelength", 0, 0, stk, X_AXIS, Y_AXIS,
                        "lab", keys, NoneWeights)
    \/ \E th \in {0, 90}, a1 \in PolAxes, keys \in TraceKeys,
          wopt \in {NoneWeights, [B |-> 0], [B |-> 0, G |-> 0], [B |-> 2]} :
          Bind_trace_at("trace_stokes_white", th, 0, <<>>, a1, Y_AXIS, "lab",
                        keys, wopt)
    \/ \E stk \in SeqsUpTo({el_A}, MaxStack), keys \in KeyTuples, wmap \in WeightMaps :
          Bind_W(stk, "mismatched", keys, wmap)

NextGuard ==
    \/ BindGuard
    \/ Call_trace_stokes_per_wavelength
    \/ Call_as_dict
    \/ Call_trace_stokes_white
    \/ Call_Tleak_stack_W

SpecGuard == InitIdle /\ [][NextGuard]_vars

\* a number of the model that stands for a finite float: a ratio n/d with
\* d > 0, or such a ratio over eps
IsFinite(q) == q[2] > 0

C13_WeightSum(keys, wmap) ==
    RSumSeq([n \in 1..Len(keys) |-> RInt(WeightOf(wmap, keys[n]))])

\* C13: the calls return and their guarded quotients are finite where the
\* denominator is zero: s1, s2, s3 of every trace point with S0 = 0, s1, s2,
\* s3 of every white-trace row whose weighted S0 sum is 0, and the value of
\* Tleak_stack_W when the weights of its keys sum to 0 or it has no keys.
C13_ZeroDenominatorsFinite ==
    /\ pc = "done" => ret.ok
    /\ Done("as_dict") =>
          \A n \in DOMAIN ret.val :
             ret.val[n].S0 = R0 =>
                /\ IsFinite(ret.val[n].s1)
                /\ IsFinite(ret.val[n].s2)
                /\ IsFinite(ret.val[n].s3)
    /\ Done("trace_stokes_white") =>
          \A r \in DOMAIN ret.val :
             ret.val[r].S0_sum = R0 =>
                /\ IsFinite(ret.val[r].s1)
                /\ IsFinite(ret.val[r].s2)
                /\ IsFinite(ret.val[r].s3)
    /\ (Done("Tleak_stack_W") /\ C13_WeightSum(wl_keys, wl_weights) = R0) =>
          IsFinite(ret.val)

\* A white trace whose only key has weight 0: a row with S0 sum 0
C13_Witness ==
    /\ Done("trace_stokes_white") /\ ret.ok
    /\ wl_keys = <<"B">> /\ wl_weights = [B |-> 0]
    /\ theta = 0
    /\ ret.val[1].S0_sum = R0 /\ ret.val[1].s1 = R0

\* A trace along the input polarizer's axis: a point with S0 = 0
C13_WitnessPoint ==
    /\ Done("as_dict") /\ ret.ok
    /\ theta = 90 /\ phi = 0 /\ c1 = X_AXIS
    /\ Len(ret.val) > 0
    /\ ret.val[1].S0 = R0 /\ ret.val[1].s1 = R0

\* Tleak_stack_W over keys whose weights are all 0
C13_WitnessLeak ==
    /\ Done("Tleak_stack_W") /\ ret.ok
    /\ wl_keys = <<"B", "G">> /\ wl_weights = [B |-> 0, G |-> 0, R |-> 0]
    /\ stack = <<el_A>> /\ ret.val = R0

(***************************************************************************)
(* White traces                                                            *)
(***************************************************************************)
\* wl_weights of a white trace: None, or a dictionary on some of the keys
WhiteWeights ==
    {NoneWeights} \cup
    {[wk \in S |-> wv] : S \in {{"B"}, {"B", "G"}}, wv \in 0..MaxWeight}

BindWhite ==
    \E stk \in SeqsUpTo({el_LC, el_A}, MaxStack), keys \in TraceKeys,
       wopt \in WhiteWeights :
       Bind_trace("trace_stokes_white", stk, Y_AXIS, "lab", keys, wopt)

NextWhite ==
    \/ BindWhite
    \/ Call_trace_stokes_white

SpecWhite == InitIdle /\ [][NextWhite]_vars

\* the per-wavelength points of the bound call that carry label lab
PointsAt(lab) ==
    LET HasLabel(p) == p.label = lab
    IN  SelectSeq(trace_stokes_per_wavelength(theta, phi, stack, c1, c2, basis,
                                              wl_keys).val, HasLabel)

\* the weight map a white trace uses: the default map when none is given
WeightsUsed == IF wl_weights = NoneWeights THEN WL_WEIGHTS ELSE wl_weights

\* sum over the points pts of w_k * S, S the Stokes parameter named by field
WeightedSum(pts, wmap, field) ==
    RSumSeq([n \in 1..Len(pts) |->
               RMul(RInt(WeightOf(wmap, pts[n].wl_key)), pts[n][field])])

\* C14: a white trace of n elements over a non-empty tuple of keys returns
\* n + 1 rows, the input polarizer's first and then the elements' in index
\* order, and each row's S0 sum is the weighted sum over the per-wavelength
\* points that carry the row's label, of which there is one per key.
C14_OneRowPerStage ==
    (Done("trace_stokes_white") /\ ret.ok /\ wl_keys # <<>>)
    => /\ Len(ret.val) = Len(stack) + 1
       /\ ret.val[1].label = POL_in
       /\ \A i \in 1..Len(stack) :
             ret.val[i + 1].label = ElLabel(i - 1, stack[i].type)
       /\ \A r \in DOMAIN ret.val :
             /\ Len(PointsAt(ret.val[r].label)) = Len(wl_keys)
             /\ ret.val[r].S0_sum
                  = WeightedSum(PointsAt(ret.val[r].label), WeightsUsed, "S0")

\* Two elements of the same type traced at two keys: three rows
C14_Witness ==
    /\ Done("trace_stokes_white") /\ ret.ok
    /\ stack = <<el_A, el_A>> /\ wl_keys = <<"B", "G">>
    /\ wl_weights = [B |-> 2]
    /\ Len(ret.val) = 3
    /\ ret.val[3].label = ElLabel(1, "A")
    /\ ret.val[3].S0_sum = RInt(3)

\* the weight map wmap on the keys traced, every weight multiplied by f
ScaledWeights(wmap, f) ==
    [wk \in {wl_keys[n] : n \in 1..Len(wl_keys)} |-> f * WeightOf(wmap, wk)]

OBLIQUE_AXIS == VInt(3, 4, 0)
OBLIQUE_PERP == VInt(-4, 3, 0)
AxisArgs == {X_AXIS, Y_AXIS, OBLIQUE_AXIS, OBLIQUE_PERP}

\* A monochromatic call in the direction (th, ph) with polarizer axes a1, a2
Bind_mono_at(f, th, ph, stk, a1, a2, mode, key) ==
    /\ Bind(f, stk, a1, a2, th, ph)
    /\ lam_arg' = WL_NM[key] /\ disp_mode' = mode
    /\ UNCHANGED <<wl_keys, wl_weights, basis>>

\* Off the normal only the empty stack is evaluated.
BindAxes ==
    \/ \E th \in {0, 90}, ph \in {0, 90, 180}, a1 \in AxisArgs, a2 \in {Y_AXIS, OBLIQUE_PERP},
          pol \in {"lab", "pol_in", "pol_out"}, keys \in {<<"B">>, <<"G", "R">>} :
          Bind_trace_at("trace_stokes_per_wavelength", th, ph, <<>>, a1, a2,
                        pol, keys, NoneWeights)
    \/ \E ph \in {0, 90}, stk \in {<<el_A>>, <<el_LC, el_A>>}, a1 \in AxisArgs,
          pol \in {"lab", "pol_in", "pol_out"} :
          Bind_trace_at("trace_stokes_per_wavelength", 0, ph, stk, a1, Y_AXIS,
                        pol, <<"B", "G">>, NoneWeights)
    \/ \E ph \in {0, 90, 180, 270}, a1 \in AxisArgs, a2 \in AxisArgs,
          mode \in ModeArgs, key \in WlKeyNames :
          Bind_mono_at("Tleak_stack_mono", 0, ph, <<>>, a1, a2, mode, key)
    \/ \E a2 \in AxisArgs, mode \in DispModes :
          Bind_mono_at("Tleak_stack_mono", 0, 0, <<el_A>>, X_AXIS, a2, mode, "G")

NextAxes ==
    \/ BindAxes
    \/ Call_trace_stokes_per_wavelength
    \/ Call_as_dict
    \/ Call_Tleak_stack_mono

SpecAxes == InitIdle /\ [][NextAxes]_vars

\* C16: in every returned trace the points labelled POL_in have S3 = 0, and
\* their normalized s3 is 0, whatever the direction, the stack, the basis
\* policy and the key.
C16_InputStageLinear ==
    /\ (Done("trace_stokes_per_wavelength") /\ ret.ok) =>
          \A n \in DOMAIN ret.val :
             ret.val[n].label = POL_in => ret.val[n].S3 = R0
    /\ (Done("as_dict") /\ ret.ok) =>
          \A n \in DOMAIN ret.val :
             ret.val[n].label = POL_in
             => (ret.val[n].S3 = R0 /\ ret.val[n].s3 = R0)

\* An input axis oblique to the lab basis, behind which S1 = -7/25 and
\* S2 = 24/25, with an element behind it that makes the light circular
C16_Witness ==
    /\ Done("as_dict") /\ ret.ok
    /\ c1 = OBLIQUE_AXIS /\ basis = "lab" /\ theta = 0
    /\ stack = <<el_A>>
    /\ ret.val[1].label = POL_in
    /\ ret.val[1].S2 = <<24, 25>> /\ ret.val[1].s2 = <<24, 25>>
    /\ ret.val[1].s3 = R0
    /\ \E n \in DOMAIN ret.val : ret.val[n].S3 # R0

\* the two lab axes are parallel, or perpendicular
Parallel(a, b) == VCross(a, b) = VZero
Crossed(a, b) == VDot(a, b) = C0

\* C17: with an empty stack at theta = 0 Tleak_stack_mono returns 1 for
\* parallel polarizer axes and 0 for perpendicular ones, at every phi, every
\* wavelength and every valid dispersion mode.
C17_EmptyStackOverlap ==
    (/\ Done("Tleak_stack_mono") /\ stack = <<>> /\ theta = 0
     /\ disp_mode \in DispModes)
    => /\ ret.ok
       /\ Parallel(c1, c2) => ret.val = R1
       /\ Crossed(c1, c2) => ret.val = R0

\* Crossed oblique axes at phi = 270 under the mismatched table
C17_Witness ==
    /\ Done("Tleak_stack_mono") /\ ret.ok /\ stack = <<>>
    /\ theta = 0 /\ phi = 270
    /\ c1 = OBLIQUE_AXIS /\ c2 = OBLIQUE_PERP
    /\ disp_mode = "mismatched"
    /\ ret.val = R0

(***************************************************************************)
(* The rotation sweep of run_rot_AC.main.  Angles are whole degrees.  An   *)
(* in-plane axis vector (cos a, sin a, 0) is kept as its angle a modulo    *)
(* 360, which determines it.  The builders return thicknesses in metres.   *)
(***************************************************************************)
\* Constants of the engine module read by the element builders
ips == [d_LC |-> <<49959, 40000000>>, dn_LC |-> <<1, 2>>,
        dn_upperA |-> <<1, 4>>, dn_lowerA |-> <<1, 5>>, dn_C |-> <<1, 8>>,
        RE_A_EACH_BASE_NM |-> RInt(100)]

\* ips.axis_from_azimuth_deg
axis_from_azimuth_deg(az) == [in_plane_deg |-> az % 360]

\* ips.ne_from_dn
ne_from_dn(no, dn) == RAdd(no, dn)

\* ips.pol_axes: the canonical axes x and y turned by pol_in and pol_out
pol_axes(pol_in, pol_out) ==
    <<axis_from_azimuth_deg(pol_in), axis_from_azimuth_deg(90 + pol_out)>>

build_LC_from_azimuth(lc_azimuth_deg) ==
    [type |-> "LC", axis |-> axis_from_azimuth_deg(lc_azimuth_deg),
     d |-> ips.d_LC, no |-> NO_BASE, ne |-> ne_from_dn(NO_BASE, ips.dn_LC)]

build_A_from_azimuth(A_scale, A_base_deg, A_azimuth_deg, A_kind) ==
    LET Re_each_m == RMul(RMul(ips.RE_A_EACH_BASE_NM, <<1, 1000000000>>),
                          RInt(A_scale))
        dnA       == IF A_kind = "upper" THEN ips.dn_upperA ELSE ips.dn_lowerA
    IN  [type |-> "A", axis |-> axis_from_azimuth_deg(A_azimuth_deg),
         d |-> IF A_scale # 0 THEN RDiv(Re_each_m, dnA) ELSE R0,
         no |-> NO_BASE, ne |-> ne_from_dn(NO_BASE, dnA),
         meta |-> [A_base_deg |-> A_base_deg, A_kind |-> A_kind]]

\* The mutation of build_C in which the thickness stays in micrometres.
build_C_Micrometres(ReC_nm_signed) ==
    IF ReC_nm_signed = 0 THEN <<>>
    ELSE LET sgn   == IF ReC_nm_signed >= 0 THEN 1 ELSE -1
             dC_um == RDiv(RInt(Abs(ReC_nm_signed)), RMul(ips.dn_C, RInt(1000)))
         IN  [type |-> "C", axis |-> <<0, 0, 1>>,
              d |-> dC_um,
              no |-> NO_BASE,
              ne |-> ne_from_dn(NO_BASE, RMul(ips.dn_C, RInt(sgn)))]

\* build_C: None (here <<>>) for ReC = 0; the thickness is |ReC| / dn_C,
\* taken in micrometres and then in metres; the sign of ReC goes into ne
build_C(ReC_nm_signed) ==
    IF ReC_nm_signed = 0 THEN <<>>
    ELSE LET sgn   == IF ReC_nm_signed >= 0 THEN 1 ELSE -1
             dC_um == RDiv(RInt(Abs(ReC_nm_signed)), RMul(ips.dn_C, RInt(1000)))
         IN  [type |-> "C", axis |-> <<0, 0, 1>>,
              d |-> RMul(dC_um, <<1, 1000000>>),
              no |-> NO_BASE,
              ne |-> ne_from_dn(NO_BASE, RMul(ips.dn_C, RInt(sgn)))]

\* [LC, A] + ([] if C is None else [C])
StackOf(LC, A, C) == <<LC, A>> \o (IF C = <<>> THEN <<>> ELSE <<C>>)

\* np.arange(start, stop + 1e-12, step) for whole numbers with step > 0
ArangeFrom(start, stop, step) ==
    IF stop < start THEN <<>>
    ELSE [i \in 1..(((stop - start) \div step) + 1) |-> start + (i - 1) * step]

\* The mutation of the scan in which mode A_polout turns the LC as well.
ScanOffsets_LCFollows(args, d) ==
    LET f == <<args.d_polout_fixed, args.d_LC_fixed, args.d_A_fixed>>
    IN  IF args.rot_mode = "misalign"
        THEN IF args.scan_target = "polout" THEN Returned(<<f[1] + d, f[2], f[3]>>)
             ELSE IF args.scan_target = "LC" THEN Returned(<<f[1], f[2] + d, f[3]>>)
             ELSE IF args.scan_target = "A" THEN Returned(<<f[1], f[2], f[3] + d>>)
             ELSE Returned(f)
        ELSE IF args.rot_mode = "A_polout"
        THEN Returned(<<f[1] + d, f[2] + d, f[3] + d>>)
        ELSE IF args.rot_mode = "LC_A_polout"
        THEN Returned(<<f[1] + d, f[2] + d, f[3] + d>>)
        ELSE Raised("ValueError: unknown rot_mode")

\* <<d_polout, d_LC, d_A>> of one pass: the fixed offsets plus the scan's
\* delta d on the parts the mode turns
ScanOffsets(args, d) ==
    LET f == <<args.d_polout_fixed, args.d_LC_fixed, args.d_A_fixed>>
    IN  IF args.rot_mode = "misalign"
        THEN IF args.scan_target = "polout" THEN Returned(<<f[1] + d, f[2], f[3]>>)
             ELSE IF args.scan_target = "LC" THEN Returned(<<f[1], f[2] + d, f[3]>>)
             ELSE IF args.scan_target = "A" THEN Returned(<<f[1], f[2], f[3] + d>>)
             ELSE Returned(f)
        ELSE IF args.rot_mode = "A_polout"
        THEN Returned(<<f[1] + d, f[2], f[3] + d>>)
        ELSE IF args.rot_mode = "LC_A_polout"
        THEN Returned(<<f[1] + d, f[2] + d, f[3] + d>>)
        ELSE Raised("ValueError: unknown rot_mode")

\* The command line: the choices argparse admits and a few angles
SweepArgs ==
    [rot_mode : {"misalign", "A_polout", "LC_A_polout"},
     scan_target : {"polout", "LC", "A"},
     lc_basis : {"abs", "tran"},
     pol_in : {0, 359}, pol_out : {0, 5},
     relLC : {1}, relA : {1},
     delta_min : {-2}, delta_max : {-3, 2}, delta_step : {1, 2},
     d_polout_fixed : {0, 3}, d_LC_fixed : {0, 7}, d_A_fixed : {0}]

\* The row of the progress table: A_base_deg, A_kind, A_scale, ReC_nm
ProgressRows ==
    {[A_base_deg |-> 0, A_kind |-> "upper", A_scale |-> 1, ReC_nm |-> 0],
     [A_base_deg |-> 90, A_kind |-> "upper", A_scale |-> 2, ReC_nm |-> 50],
     [A_base_deg |-> 0, A_kind |-> "lower", A_scale |-> 0, ReC_nm |-> -50]}

\* main up to the loop: the reference azimuths, polarizers and stack, and
\* the deltas of the scan
Sweep_Start(args, r) ==
    /\ pc = "idle" /\ sweep.at = "none"
    /\ LET LC_az_ref == (IF args.lc_basis = "abs" THEN 0 ELSE 90)
                        + args.pol_in + args.relLC
           A_az_ref  == r.A_base_deg + args.pol_out + args.relA
           pol_ref   == pol_axes(args.pol_in, args.pol_out)
       IN  sweep' = [at |-> "loop", args |-> args, r |-> r,
                     pol_out_ref |-> args.pol_out,
                     LC_az_ref |-> LC_az_ref, A_az_ref |-> A_az_ref,
                     c1_ref |-> pol_ref[1], c2_ref |-> pol_ref[2],
                     ref_stack |-> StackOf(build_LC_from_azimuth(LC_az_ref),
                                           build_A_from_azimuth(r.A_scale, r.A_base_deg,
                                                                A_az_ref, r.A_kind),
                                           build_C(r.ReC_nm)),
                     deltas |-> ArangeFrom(args.delta_min, args.delta_max,
                                           args.delta_step),
                     idx |-> 0, rows |-> <<>>, err |-> ""]
    /\ fn' = "main" /\ pc' = "ready"
    /\ UNCHANGED <<globals, arguments, loop, ret, hist>>

\* One pass of `for idx, d in enumerate(deltas)`
Sweep_Iter ==
    /\ pc = "ready" /\ fn = "main" /\ sweep.at = "loop"
    /\ sweep.idx < Len(sweep.deltas)
    /\ LET args == sweep.args
           d    == sweep.deltas[sweep.idx + 1]
           off  == ScanOffsets(args, d)
       IN  IF ~off.ok
           THEN sweep' = [sweep EXCEPT !.at = "raised", !.err = off.err]
           ELSE LET d_polout    == off.val[1]
                    d_LC        == off.val[2]
                    d_A         == off.val[3]
                    pol_out_eff == sweep.pol_out_ref + d_polout
                    pol         == pol_axes(args.pol_in, pol_out_eff)
                    LC_az       == sweep.LC_az_ref + d_LC
                    A_az        == sweep.A_az_ref + d_A
                    row == [delta_deg |-> d, rot_mode |-> args.rot_mode,
                            scan_target |-> args.scan_target,
                            d_polout_deg |-> d_polout, d_LC_deg |-> d_LC,
                            d_A_deg |-> d_A, pol_in_deg |-> args.pol_in,
                            pol_out_ref_deg |-> sweep.pol_out_ref,
                            A_scale_ref |-> sweep.r.A_scale,
                            ReC_nm_ref |-> sweep.r.ReC_nm,
                            A_base_deg |-> sweep.r.A_base_deg,
                            A_kind |-> sweep.r.A_kind,
                            pol_out_eff |-> pol_out_eff,
                            c1 |-> pol[1], c2 |-> pol[2],
                            LC_az |-> LC_az, A_az |-> A_az,
                            stack |-> StackOf(build_LC_from_azimuth(LC_az),
                                              build_A_from_azimuth(sweep.r.A_scale,
                                                  sweep.r.A_base_deg, A_az,
                                                  sweep.r.A_kind),
                                              build_C(sweep.r.ReC_nm))]
                IN  sweep' = [sweep EXCEPT !.idx = @ + 1, !.rows = Append(@, row)]
    /\ UNCHANGED <<globals, arguments, loop, fn, pc, ret, hist>>

\* After the loop the rows are written out.
Sweep_End ==
    /\ pc = "ready" /\ fn = "main" /\ sweep.at = "loop"
    /\ sweep.idx = Len(sweep.deltas)
    /\ sweep' = [sweep EXCEPT !.at = "written"]
    /\ pc' = "done"
    /\ ret' = Returned(<<>>)
    /\ UNCHANGED <<globals, arguments, loop, fn, hist>>

NextSweep ==
    \/ \E args \in SweepArgs, r \in ProgressRows : Sweep_Start(args, r)
    \/ Sweep_Iter
    \/ Sweep_End

SpecSweep == InitIdle /\ [][NextSweep]_vars

\* the delta a part has been turned by in a row: the scan's delta if the
\* mode turns the part, else 0
TurnOf(part, row) ==
    IF \/ row.rot_mode = "LC_A_polout"
       \/ row.rot_mode = "A_polout" /\ part \in {"polout", "A"}
       \/ row.rot_mode = "misalign" /\ part = row.scan_target
    THEN row.delta_deg ELSE 0

\* C18: in every row of the sweep the analyzer angle, the LC azimuth and the
\* A azimuth are their reference values plus their fixed offsets plus the
\* delta of the row for the parts the mode turns (A and the analyzer under
\* A_polout, all three under LC_A_polout, the scan target under misalign),
\* the input polarizer's axis is the reference one, and the elements have the
\* types, thicknesses and indices of the reference stack.
C18_ModesTurnStatedParts ==
    sweep.at \in {"loop", "written"} =>
       /\ sweep.err = ""
       /\ Len(sweep.rows) = sweep.idx
       /\ \A n \in DOMAIN sweep.rows :
             LET row  == sweep.rows[n]
                 args == sweep.args
             IN  /\ row.delta_deg = sweep.deltas[n]
                 /\ row.pol_out_eff
                      = sweep.pol_out_ref + args.d_polout_fixed + TurnOf("polout", row)
                 /\ row.LC_az = sweep.LC_az_ref + args.d_LC_fixed + TurnOf("LC", row)
                 /\ row.A_az = sweep.A_az_ref + args.d_A_fixed + TurnOf("A", row)
                 /\ row.c1 = sweep.c1_ref
                 /\ row.c2 = pol_axes(args.pol_in, row.pol_out_eff)[2]
                 /\ row.stack[1].axis = axis_from_azimuth_deg(row.LC_az)
                 /\ row.stack[2].axis = axis_from_azimuth_deg(row.A_az)
                 /\ Len(row.stack) = Len(sweep.ref_stack)
                 /\ \A i \in DOMAIN row.stack :
                       /\ row.stack[i].type = sweep.ref_stack[i].type
                       /\ row.stack[i].d = sweep.ref_stack[i].d
                       /\ row.stack[i].no = sweep.ref_stack[i].no
                       /\ row.stack[i].ne = sweep.ref_stack[i].ne

\* A finished A_polout sweep over deltas -2, 0, 2 with a fixed LC offset: in
\* the last row A and the analyzer are turned by 2 and the LC is not.
C18_Witness ==
    /\ sweep.at = "written"
    /\ sweep.args.rot_mode = "A_polout" /\ sweep.args.scan_target = "LC"
    /\ sweep.args.d_LC_fixed = 7 /\ sweep.args.d_polout_fixed = 0
    /\ sweep.args.pol_in = 359 /\ sweep.args.lc_basis = "abs"
    /\ Len(sweep.rows) = 3
    /\ sweep.rows[3].delta_deg = 2
    /\ sweep.rows[3].LC_az = sweep.LC_az_ref + 7
    /\ sweep.rows[3].A_az = sweep.A_az_ref + 2
    /\ sweep.rows[3].pol_out_eff = sweep.pol_out_ref + 2
    /\ sweep.rows[3].stack[1].axis # sweep.ref_stack[1].axis
    /\ Len(sweep.rows[3].stack) = 3

(***************************************************************************)
(* The element loop of the three propagators, statement by statement.      *)
(* loop holds the locals: the direction k, the pass axes, the basis, the   *)
(* field E, the product ME = M @ E before the re-projection, the position  *)
(* in wl_keys (j) and in the stack (i), the points appended and the fields *)
(* handed to stokes_from_E and to the analyzer projection.                 *)
(***************************************************************************)
StepFns == {"Tleak_stack_mono", "Tleak_single_lambda", "trace_stokes_per_wavelength"}

\* The operators ips.retarder_matrix may hand back for an element: the
\* transverse retarder, and operators that also couple the field along the
\* lab x or y axis into the direction of propagation.
ElementOperators(k, axis, Gamma) ==
    The({ {M, MAdd(M, Outer(k, X_AXIS)), MAdd(M, Outer(k, Y_AXIS))}
          : M \in {retarder_matrix(k, axis, Gamma)} })

\* no, ne of element el in the pass of the function running
StepIndices(el) ==
    IF fn = "Tleak_stack_mono" THEN ne_no_for_lambda(el, lam_arg, disp_mode)
    ELSE Returned(_ne_no_for_wl(el, wl_keys[loop.j]))

\* the wavelength of the pass
StepLambda == IF fn = "Tleak_stack_mono" THEN lam_arg ELSE wl_m(wl_keys[loop.j])

\* the number of passes over the stack: one, or one per key of the trace
StepPasses == IF fn = "trace_stokes_per_wavelength" THEN Len(wl_keys) ELSE 1

\* The statements before the element loop: k, the pass axes, the basis and
\* the POL_in points of the trace, and the input field.
Step_Begin ==
    /\ pc = "ready" /\ fn \in StepFns /\ loop.at = "none"
    /\ LET kv == k_hat(theta, phi)
           o1 == o_axis_Otype(kv, c1)
           o2 == o_axis_Otype(kv, c2)
           uv == IF fn = "trace_stokes_per_wavelength"
                 THEN transverse_basis(kv, basis, c1, c2)
                 ELSE Returned(<<VZero, VZero>>)
       IN  IF ~uv.ok
           THEN /\ loop' = [at |-> "raised"]
                /\ ret' = uv /\ pc' = "done"
           ELSE /\ loop' = [at |-> "top", k |-> kv, o1 |-> o1, o2 |-> o2,
                            u |-> uv.val[1], v |-> uv.val[2],
                            E |-> o1, ME |-> o1, j |-> 1, i |-> 1,
                            out |-> IF fn = "trace_stokes_per_wavelength"
                                    THEN [n \in 1..Len(wl_keys) |->
                                            StokesPoint(POL_in, wl_keys[n],
                                               stokes_from_E(o1, kv, uv.val[1], uv.val[2]))]
                                    ELSE <<>>,
                            handed |-> <<>>]
                /\ UNCHANGED <<ret, pc>>
    /\ UNCHANGED <<globals, arguments, sweep, fn, hist>>

\* The indices, the retardation and E = M @ E for element i of pass j
Step_Multiply ==
    /\ pc = "ready" /\ loop.at = "top"
    /\ loop.j <= StepPasses /\ loop.i <= Len(stack)
    /\ LET el == stack[loop.i]
           nn == StepIndices(el)
       IN  IF ~nn.ok
           THEN /\ loop' = [loop EXCEPT !.at = "raised"]
                /\ ret' = nn /\ pc' = "done"
           ELSE IF el.type \notin {"A", "LC", "C"}
           THEN /\ loop' = [loop EXCEPT !.at = "raised"]
                /\ ret' = Raised("ValueError: Unknown element type")
                /\ pc' = "done"
           ELSE LET Gamma == IF el.type \in {"A", "LC"}
                             THEN eq3a_Gamma_A(theta, phi - axis_azimuth_deg(el.axis),
                                               StepLambda, el.d, nn.val[1], nn.val[2])
                             ELSE eq3b_Gamma_C(theta, StepLambda, el.d,
                                               nn.val[1], nn.val[2])
                IN  /\ \E M \in ElementOperators(loop.k, el.axis, Gamma) :
                          loop' = [loop EXCEPT !.at = "multiplied",
                                               !.E = MatVec(M, loop.E),
                                               !.ME = MatVec(M, loop.E)]
                    /\ UNCHANGED <<ret, pc>>
    /\ UNCHANGED <<globals, arguments, sweep, fn, hist>>

\* E = E - np.dot(E, k) * k
Step_Reproject ==
    /\ pc = "ready" /\ loop.at = "multiplied"
    /\ loop' = [loop EXCEPT !.at = "reprojected", !.E = Reproject(loop.E, loop.k)]
    /\ UNCHANGED <<globals, arguments, sweep, fn, pc, ret, hist>>

\* The end of the loop body: the trace appends the element's point; after
\* the last element of a pass the next pass starts from E0 again.
Step_Next ==
    /\ pc = "ready" /\ loop.at = "reprojected"
    /\ LET el   == stack[loop.i]
           last == loop.i = Len(stack)
           isTr == fn = "trace_stokes_per_wavelength"
       IN  loop' = [loop EXCEPT
                      !.at = "top",
                      !.i = IF last /\ isTr THEN 1 ELSE @ + 1,
                      !.j = IF last THEN @ + 1 ELSE @,
                      !.E = IF last /\ isTr THEN loop.o1 ELSE @,
                      !.out = IF isTr
                              THEN Append(@, StokesPoint(ElLabel(loop.i - 1, el.type),
                                                         wl_keys[loop.j],
                                                         stokes_from_E(loop.E, loop.k,
                                                                       loop.u, loop.v)))
                              ELSE @,
                      !.handed = IF isTr THEN Append(@, loop.E) ELSE @]
    /\ UNCHANGED <<globals, arguments, sweep, fn, pc, ret, hist>>

\* The loops are over: the leakage functions project the field onto the
\* analyzer's pass axis, the trace returns its points.
Step_Return ==
    /\ pc = "ready" /\ loop.at = "top"
    /\ loop.j > StepPasses \/ Len(stack) = 0
    /\ IF fn = "trace_stokes_per_wavelength"
       THEN /\ ret' = Returned(loop.out)
            /\ loop' = [loop EXCEPT !.at = "returned"]
       ELSE /\ ret' = Returned(CAbs2(VVdot(loop.o2, loop.E)))
            /\ loop' = [loop EXCEPT !.at = "returned",
                                    !.handed = Append(@, loop.E)]
    /\ pc' = "done"
    /\ UNCHANGED <<globals, arguments, sweep, fn, hist>>

\* Normal incidence, where the model evaluates the retardation formulas
StepStacks == SeqsUpTo({el_LC, el_A, el_C}, MaxStack) \cup {<<el_A, el_TAC>>}

BindStep ==
    \/ \E stk \in StepStacks, ph \in {0, 90}, mode \in {"matched", "bogus"},
          key \in {"B", "G"} :
          Bind_mono_at("Tleak_stack_mono", 0, ph, stk, X_AXIS, Y_AXIS, mode, key)
    \/ \E stk \in StepStacks, key \in {"B", "G"} :
          Bind_single(stk, Y_AXIS, key)
    \/ \E stk \in StepStacks, keys \in {<<"B">>, <<"G", "B">>},
          pol \in {"lab", "pol_out", "bogus"} :
          Bind_trace_at("trace_stokes_per_wavelength", 0, 0, stk, OBLIQUE_AXIS,
                        Y_AXIS, pol, keys, NoneWeights)

NextStep ==
    \/ BindStep
    \/ Step_Begin
    \/ Step_Multiply
    \/ Step_Reproject
    \/ Step_Next
    \/ Step_Return

SpecStep == InitIdle /\ [][NextStep]_vars

Transverse(E, k) == VDot(E, k) = C0

\* C19: in the element loops of Tleak_stack_mono, Tleak_single_lambda and
\* trace_stokes_per_wavelength the field is transverse to k right after each
\* re-projection, whatever operator the element applied, and every field
\* handed to stokes_from_E behind an element or to the analyzer projection is
\* transverse; behind an element it is the field the re-projection left.
C19_TransverseAfterReprojection ==
    /\ loop.at = "reprojected" =>
          /\ Transverse(loop.E, loop.k)
          /\ loop.E = Reproject(loop.ME, loop.k)
    /\ loop.at \in {"top", "multiplied", "reprojected", "returned"} =>
          \A n \in DOMAIN loop.handed : Transverse(loop.handed[n], loop.k)
    /\ (loop.at = "returned" /\ fn # "trace_stokes_per_wavelength" /\ stack # <<>>) =>
          loop.handed[Len(loop.handed)] = Reproject(loop.ME, loop.k)

\* The second element's product has a component along k, which the
\* re-projection has removed
C19_Witness ==
    /\ loop.at = "reprojected" /\ loop.i = 2
    /\ fn = "Tleak_stack_mono"
    /\ ~Transverse(loop.ME, loop.k)
    /\ Transverse(loop.E, loop.k)
    /\ loop.E # VZero

(***************************************************************************)
(* Wavelength samples and grid cells evaluated in any order.  loop holds   *)
(* the samples taken so far (vals), and for the white leakage the running  *)
(* sums in the order the samples were taken.                               *)
(***************************************************************************)
\* The mutation of an evaluation that overwrites each element's ne with its no.
EvalLeaves_FlattenedStack(stk) ==
    [n \in 1..Len(stk) |-> [stk[n] EXCEPT !.ne = stk[n].no]]

\* The stack as one evaluation of Tleak_stack_mono leaves it: the loop reads
\* el["type"], el["axis"], el["d"] and the indices and assigns none of them.
EvalLeaves(stk) == stk

\* the samples of the call: the positions of wl_keys, or the cells of the
\* grid in row-major order
OrderSamples ==
    IF fn = "Tleak_stack_W" THEN 1..Len(wl_keys)
    ELSE 1..(Len(Arange(grid[1], grid[2])) * Len(Arange(360, grid[3])))

\* sample n: the monochromatic leakage at key n, or the contrast of cell n
OrderSample(n) ==
    IF fn = "Tleak_stack_W"
    THEN Tleak_stack_mono(theta, phi, stack, c1, c2, WL_NM[wl_keys[n]], disp_mode)
    ELSE The({ CR_W(Arange(grid[1], grid[2])[((n - 1) \div np) + 1],
                    Arange(360, grid[3])[((n - 1) % np) + 1],
                    stack, c1, c2, disp_mode)
               : np \in {Len(Arange(360, grid[3]))} })

Order_Begin ==
    /\ pc = "ready" /\ fn \in {"Tleak_stack_W", "compute_CR_grid_W"}
    /\ loop.at = "none"
    /\ loop' = [at |-> "open", vals |-> <<>>, Tsum |-> R0, wsum |-> R0]
    /\ UNCHANGED <<globals, arguments, sweep, fn, pc, ret, hist>>

\* One sample, any sample not yet taken
Order_Eval(n) ==
    /\ pc = "ready" /\ loop.at = "open"
    /\ n \in OrderSamples \ DOMAIN loop.vals
    /\ LET s == OrderSample(n)
           w == IF fn = "Tleak_stack_W" THEN RInt(Get(wl_weights, wl_keys[n], 1))
                ELSE R0
       IN  IF ~s.ok
           THEN /\ loop' = [loop EXCEPT !.at = "raised"]
                /\ ret' = s /\ pc' = "done"
           ELSE /\ loop' = [loop EXCEPT
                              !.vals = [m \in DOMAIN loop.vals \cup {n} |->
                                          IF m = n THEN s.val ELSE loop.vals[m]],
                              !.Tsum = RAdd(@, RMul(w, s.val)),
                              !.wsum = RAdd(@, w)]
                /\ UNCHANGED <<ret, pc>>
    /\ stack' = EvalLeaves(stack)
    /\ UNCHANGED <<globals, c1, c2, theta, phi, lam_arg, disp_mode, wl_keys,
                   wl_weights, basis, scale_dict, grid, sweep, fn, hist>>

\* Every sample is taken: the quotient of the sums, or the arrays
Order_Return ==
    /\ pc = "ready" /\ loop.at = "open"
    /\ DOMAIN loop.vals = OrderSamples
    /\ loop' = [loop EXCEPT !.at = "returned"]
    /\ ret' = IF fn = "Tleak_stack_W"
              THEN Returned(DivGuarded(loop.Tsum, loop.wsum))
              ELSE The({ Returned(<<thetas, phis,
                            [i \in 1..Len(thetas) |->
                               [j \in 1..Len(phis) |->
                                  loop.vals[(i - 1) * Len(phis) + j]]]>>)
                         : thetas \in {Arange(grid[1], grid[2])},
                           phis \in {Arange(360, grid[3])} })
    /\ pc' = "done"
    /\ UNCHANGED <<globals, arguments, sweep, fn, hist>>

\* Off the normal only the empty stack is evaluated.
BindOrder ==
    \/ \E stk \in SeqsUpTo({el_A}, MaxStack), mode \in {"mismatched", "bogus"},
          keys \in KeyTuples, wmap \in {[B |-> 2], [B |-> 0, G |-> 1]} :
          Bind_W(stk, mode, keys, wmap)
    \/ \E g \in {<<90, 90, 180>>, <<0, 90, 360>>} :
          Bind_grid("compute_CR_grid_W", <<>>, "mismatched", "B", g)
    \/ \E stk \in {<<el_A>>, <<el_A, el_LC>>}, dp \in {180, 360} :
          Bind_grid("compute_CR_grid_W", stk, "mismatched", "B", <<0, 90, dp>>)

NextOrder ==
    \/ BindOrder
    \/ Order_Begin
    \/ \E n \in OrderSamples : Order_Eval(n)
    \/ Order_Return

SpecOrder == InitIdle /\ [][NextOrder]_vars

\* the rearrangements of a sequence
PermutationsOf(s) ==
    {[n \in 1..Len(s) |-> s[p[n]]] :
        p \in {q \in [1..Len(s) -> 1..Len(s)] :
                  \A a, b \in 1..Len(s) : q[a] = q[b] => a = b}}

\* C21: whatever the order in which the samples are taken, the white leakage
\* is the value Tleak_stack_W returns for wl_keys and for every rearrangement
\* of wl_keys, every cell has the value CR_W has for its direction, and the
\* grid is the one compute_CR_grid_W returns; a sample that raises is one on
\* which the call raises too.
C21_OrderIndependent ==
    /\ (loop.at = "returned" /\ fn = "Tleak_stack_W") =>
          \A p \in PermutationsOf(wl_keys) :
             ret = Tleak_stack_W(theta, phi, stack, c1, c2, disp_mode, p, wl_weights)
    /\ (loop.at \in {"open", "returned"} /\ fn = "compute_CR_grid_W") =>
          \A n \in DOMAIN loop.vals : loop.vals[n] = OrderSample(n).val
    /\ (loop.at = "returned" /\ fn = "compute_CR_grid_W") =>
          ret = compute_CR_grid_W(stack, c1, c2, disp_mode, grid[1], grid[2], grid[3])
    /\ (loop.at = "raised" /\ fn = "Tleak_stack_W") =>
          ret = Tleak_stack_W(theta, phi, stack, c1, c2, disp_mode, wl_keys, wl_weights)

\* The cell at phi = 180 taken before the cell at phi = 0
C21_Witness ==
    /\ loop.at = "open" /\ fn = "compute_CR_grid_W"
    /\ stack = <<el_A>> /\ grid = <<0, 90, 180>>
    /\ DOMAIN loop.vals = {2}

\* Two different keys whose leakages differ, the second sampled first
C21_WitnessKeys ==
    /\ loop.at = "open" /\ fn = "Tleak_stack_W"
    /\ stack = <<el_A>> /\ wl_keys = <<"B", "G">> /\ disp_mode = "mismatched"
    /\ DOMAIN loop.vals = {2} /\ loop.Tsum # R0

\* the first point of a trace with key w: the POL_in point of that key
InputPoint(pts, w) == pts[CHOOSE n \in DOMAIN pts : pts[n].wl_key = w]

\* C22: in every returned trace S0 of each element's point equals S0 of the
\* POL_in point of the same key, and at normal incidence that S0 is 1.
C22_Lossless ==
    (Done("trace_stokes_per_wavelength") /\ ret.ok) =>
       \A n \in DOMAIN ret.val :
          /\ InputPoint(ret.val, ret.val[n].wl_key).label = POL_in
          /\ ret.val[n].S0 = InputPoint(ret.val, ret.val[n].wl_key).S0
          /\ theta = 0 => ret.val[n].S0 = R1

\* Two elements behind an oblique input axis: the last point has unit S0
\* and a polarization other than the input's
C22_Witness ==
    /\ Done("trace_stokes_per_wavelength") /\ ret.ok
    /\ stack = <<el_LC, el_A>> /\ c1 = OBLIQUE_AXIS /\ basis = "lab"
    /\ Len(ret.val) = 6
    /\ ret.val[6].label = ElLabel(1, "A")
    /\ ret.val[6].S0 = R1
    /\ ret.val[6].S1 # ret.val[1].S1

(***************************************************************************)
(* The reference stack of the drivers: run_dispersion_updated.main and     *)
(* run_rot_AC.main read A_scale and ReC_nm from the row of the progress    *)
(* table, let --ref_A_scale and --ref_ReC_nm override them, and hand the   *)
(* values to the element builders.  An override is <<>> for None and <<v>>  *)
(* for the value v.                                                        *)
(***************************************************************************)
\* The row of the progress table and the two overrides of the command line
RefRows ==
    [A_base_deg : {0, 90}, A_kind : {"upper", "lower"},
     A_scale : {-1, 0, 2}, ReC_nm : {-50, 0, 1, 50}]

RefOverrides ==
    [ref_A_scale : {<<>>, <<-2>>, <<1>>}, ref_ReC_nm : {<<>>, <<-7>>, <<0>>}]

\* main up to the builders: the row, the overrides and the azimuths
Ref_Start(args, r) ==
    /\ pc = "idle" /\ sweep.at = "none"
    /\ sweep' = [at |-> "ref",
                 A_base |-> r.A_base_deg, A_kind |-> r.A_kind,
                 A_scale_ref |-> IF args.ref_A_scale # <<>>
                                 THEN args.ref_A_scale[1] ELSE r.A_scale,
                 ReC_nm_ref |-> IF args.ref_ReC_nm # <<>>
                                THEN args.ref_ReC_nm[1] ELSE r.ReC_nm,
                 LC_az_ref |-> 1, A_az_ref |-> r.A_base_deg + 1]
    /\ fn' = "main" /\ pc' = "ready"
    /\ UNCHANGED <<globals, arguments, loop, ret, hist>>

\* main: LC, A, C and stack = [LC, A] + ([] if C is None else [C])
Ref_Stack ==
    /\ pc = "ready" /\ fn = "main" /\ sweep.at = "ref"
    /\ Finish(Returned(StackOf(
           build_LC_from_azimuth(sweep.LC_az_ref),
           build_A_from_azimuth(sweep.A_scale_ref, sweep.A_base,
                                sweep.A_az_ref, sweep.A_kind),
           build_C(sweep.ReC_nm_ref))))

NextRef ==
    \/ \E args \in RefOverrides, r \in RefRows : Ref_Start(args, r)
    \/ Ref_Stack

SpecRef == Init /\ [][NextRef]_vars

\* C23: every element of the stack a driver builds from the row of the
\* progress table and the overrides has thickness d >= 0.
C23_ThicknessNonNegative ==
    (Done("main") /\ sweep.at = "ref") =>
       \A n \in DOMAIN ret.val : RLe(R0, ret.val[n].d)

\* C23 for the elements other than A: the LC and C elements have d >= 0.
C23_OtherThicknesses ==
    (Done("main") /\ sweep.at = "ref") =>
       \A n \in DOMAIN ret.val :
          ret.val[n].type # "A" => RLe(R0, ret.val[n].d)

\* The A element built for a negative A_scale
C23_NegativeScale ==
    /\ Done("main") /\ sweep.at = "ref"
    /\ sweep.A_scale_ref < 0
    /\ RLt(ret.val[2].d, R0)

\* -1, 0 or 1 as the rational a is negative, zero or positive
RSign(a) == IF a[1] < 0 THEN -1 ELSE IF a[1] = 0 THEN 0 ELSE 1

\* C24: for a non-zero ReC_nm the stack ends with a C element whose d (in
\* metres) times |ne - no| is |ReC_nm| nanometres and whose ne - no has the
\* sign of ReC_nm; for ReC_nm = 0 the stack is exactly [LC, A].
C24_SignedRetardation ==
    (Done("main") /\ sweep.at = "ref") =>
       LET ReC == sweep.ReC_nm_ref
           C   == ret.val[3]
       IN  IF ReC = 0
           THEN /\ Len(ret.val) = 2
                /\ ret.val[1].type = "LC" /\ ret.val[2].type = "A"
           ELSE /\ Len(ret.val) = 3
                /\ ret.val[1].type = "LC" /\ ret.val[2].type = "A"
                /\ C.type = "C"
                /\ RMul(C.d, RAbs(RSub(C.ne, C.no)))
                      = RMul(RInt(Abs(ReC)), <<1, 1000000000>>)
                /\ RSign(RSub(C.ne, C.no)) = RSign(RInt(ReC))

\* A negative C plate: ReC_nm = -7 gives d = 7e-9 / dn_C and ne < no
C24_Witness ==
    /\ Done("main") /\ sweep.at = "ref"
    /\ sweep.ReC_nm_ref = -7
    /\ Len(ret.val) = 3
    /\ RLt(ret.val[3].ne, ret.val[3].no)
    /\ RLt(R0, ret.val[3].d)

\* No C plate: ReC_nm = 0 from the override leaves [LC, A]
C24_WitnessNone ==
    /\ Done("main") /\ sweep.at = "ref"
    /\ sweep.ReC_nm_ref = 0
    /\ Len(ret.val) = 2

(***************************************************************************)
(* The trace and the single-wavelength leakage on the same arguments       *)
(***************************************************************************)
\* Both functions over input and output axes in every combination; off the
\* normal only the empty stack is evaluated.
BindFinal ==
    \/ \E ph \in {0, 90}, stk \in {<<>>, <<el_A>>, <<el_LC, el_A>>, <<el_A, el_TAC>>},
          a1 \in AxisArgs, a2 \in AxisArgs, pol \in {"lab", "pol_out"},
          keys \in {<<"B">>, <<"G", "B">>} :
          Bind_trace_at("trace_stokes_per_wavelength", 0, ph, stk, a1, a2,
                        pol, keys, NoneWeights)
    \/ \E th \in {90, 180}, ph \in {0, 90}, a1 \in AxisArgs, a2 \in AxisArgs :
          Bind_trace_at("trace_stokes_per_wavelength", th, ph, <<>>, a1, a2,
                        "pol_out", <<"R">>, NoneWeights)
    \/ \E ph \in {0, 90}, stk \in {<<>>, <<el_A>>, <<el_LC, el_A>>, <<el_A, el_TAC>>},
          a1 \in AxisArgs, a2 \in AxisArgs, key \in {"B", "G"} :
          Bind_trace_at("Tleak_single_lambda", 0, ph, stk, a1, a2,
                        "pol_out", <<key>>, NoneWeights)

NextFinal ==
    \/ BindFinal
    \/ Call_trace_stokes_per_wavelength
    \/ Call_Tleak_single_lambda

SpecFinal == InitIdle /\ [][NextFinal]_vars

\* The last point a trace holds for the key w
LastPoint(pts, w) ==
    pts[CHOOSE n \in DOMAIN pts :
           /\ pts[n].wl_key = w
           /\ \A m \in DOMAIN pts : m > n => pts[m].wl_key # w]

\* (S0 + S1) / 2
HalfSum(p) == RMul(<<1, 2>>, RAdd(p.S0, p.S1))

\* C25: under basis "pol_out" the leakage Tleak_single_lambda returns for a
\* stack, direction and key is (S0 + S1)/2 of the last point the trace holds
\* for that key (the POL_in point for an empty stack), and one raises exactly
\* when the other does.
C25_TraceEndsInLeakage ==
    /\ (Done("trace_stokes_per_wavelength") /\ basis = "pol_out") =>
          \A j \in 1..Len(wl_keys) :
             \E T \in {Tleak_single_lambda(theta, phi, stack, c1, c2, wl_keys[j])} :
                /\ T.ok = ret.ok
                /\ ret.ok => T.val = HalfSum(LastPoint(ret.val, wl_keys[j]))
    /\ Done("Tleak_single_lambda") =>
          \E tr \in {trace_stokes_per_wavelength(theta, phi, stack, c1, c2,
                                                 "pol_out", wl_keys)} :
             /\ tr.ok = ret.ok
             /\ ret.ok => ret.val = HalfSum(tr.val[Len(tr.val)])

\* A trace of [LC, A] behind the y axis, seen in the basis of an oblique
\* output axis: the last point at B is the A point, with leakage 16/25 where
\* the POL_in point has 9/25
C25_Witness ==
    /\ Done("trace_stokes_per_wavelength") /\ ret.ok /\ basis = "pol_out"
    /\ stack = <<el_LC, el_A>> /\ c1 = Y_AXIS /\ c2 = OBLIQUE_PERP
    /\ wl_keys = <<"G", "B">>
    /\ LastPoint(ret.val, "B").label = ElLabel(1, "A")
    /\ HalfSum(LastPoint(ret.val, "B")) = <<16, 25>>
    /\ HalfSum(ret.val[2]) = <<9, 25>>

\* The empty stack: the last point is the POL_in point
C25_WitnessEmpty ==
    /\ Done("trace_stokes_per_wavelength") /\ ret.ok /\ basis = "pol_out"
    /\ stack = <<>> /\ c1 = OBLIQUE_AXIS /\ c2 = Y_AXIS
    /\ LastPoint(ret.val, "B").label = POL_in
    /\ HalfSum(LastPoint(ret.val, "B")) = <<16, 25>>

(***************************************************************************)
(* analyze_stokes.py: the leakage predicted from the normalized Stokes     *)
(* parameters of a stage.  The row r holds s1, s2, s3 of the stage as the  *)
(* trace of the bound stack, direction, basis and key gives them.          *)
(***************************************************************************)
\* math.cos(2 * alpha) and math.sin(2 * alpha) for alpha = atan2(av, au)
Cos2Atan2(av, au) ==
    The({ IF n2[1] = 0 THEN R1
          ELSE RDiv(RSub(RMul(au, au), RMul(av, av)), n2)
          : n2 \in {RAdd(RMul(au, au), RMul(av, av))} })

Sin2Atan2(av, au) ==
    The({ IF n2[1] = 0 THEN R0
          ELSE RDiv(RMul(RInt(2), RMul(au, av)), n2)
          : n2 \in {RAdd(RMul(au, au), RMul(av, av))} })

\* I = 0.5 * (1 + s1 cos 2 alpha + s2 sin 2 alpha); Tleak_pred = 0.5 * I
Tleak_pred(s_1, s_2, av, au) ==
    The({ RMul(<<1, 2>>, I)
          : I \in {RMul(<<1, 2>>, RAdd(R1, RAdd(RMul(s_1, Cos2Atan2(av, au)),
                                               RMul(s_2, Sin2Atan2(av, au)))))} })

\* main from the basis to CR_pred, on the row r
analyze_stokes(th, ph, a1, a2, pol, r) ==
    The({ The({
        IF ~uv.ok THEN uv
        ELSE The({ The({ Returned([au |-> au, av |-> av, Tleak_pred |-> T,
                                   CR_pred |-> CR_from_Tleak(T)])
                         : T \in {Tleak_pred(r.s1, r.s2, av, au)} })
                   : au \in {VDot(o2, uv.val[1])[1]},
                     av \in {VDot(o2, uv.val[2])[1]} })
        : uv \in {transverse_basis(kv, pol, a1, a2)}, o2 \in {o_axis_Otype(kv, a2)} })
        : kv \in {k_hat(th, ph)} })

\* The row of the progress table for the last stage of the stack: the
\* normalized Stokes parameters of the last point of the trace
Analyze_Start(ph, stk, a1, a2, pol, key) ==
    /\ pc = "idle" /\ sweep.at = "none"
    /\ fn' = "main" /\ pc' = "ready"
    /\ stack' = stk /\ c1' = a1 /\ c2' = a2 /\ theta' = 0 /\ phi' = ph
    /\ basis' = pol /\ wl_keys' = <<key>>
    /\ UNCHANGED <<globals, ret, hist, scale_dict, grid, loop, lam_arg, disp_mode,
                   wl_weights>>
    /\ \E tr \in {trace_stokes_per_wavelength(0, ph, stk, a1, a2, pol, <<key>>)} :
          /\ tr.ok
          /\ \E p \in {as_dict(tr.val[Len(tr.val)])} :
                sweep' = [at |-> "row",
                          stage |-> p.label,
                          r |-> [s1 |-> p.s1, s2 |-> p.s2, s3 |-> p.s3]]

Call_analyze_stokes ==
    /\ pc = "ready" /\ fn = "main" /\ sweep.at = "row"
    /\ Finish(analyze_stokes(theta, phi, c1, c2, basis, sweep.r))

NextAnalyze ==
    \/ \E ph \in {0, 90}, stk \in {<<>>, <<el_A>>, <<el_LC, el_A>>, <<el_A, el_LC>>},
          a1 \in AxisArgs, a2 \in AxisArgs, pol \in {"lab", "pol_in", "pol_out"},
          key \in {"B", "G"} :
          Analyze_Start(ph, stk, a1, a2, pol, key)
    \/ Call_analyze_stokes

SpecAnalyze == InitIdle /\ [][NextAnalyze]_vars

\* C26: the Tleak_pred analyze_stokes prints for the last stage of a stack
\* is the leakage |<o2, E_final>|^2 that Tleak_single_lambda returns for the
\* same stack, direction, polarizer axes and key.
C26_PredictionIsLeakage ==
    (Done("main") /\ sweep.at = "row" /\ ret.ok) =>
       ret.val.Tleak_pred
          = Tleak_single_lambda(theta, phi, stack, c1, c2, wl_keys[1]).val

\* What the code prints instead: half of that leakage
C26_PredictionIsHalfLeakage ==
    (Done("main") /\ sweep.at = "row" /\ ret.ok) =>
       ret.val.Tleak_pred
          = RMul(<<1, 2>>,
                 Tleak_single_lambda(theta, phi, stack, c1, c2, wl_keys[1]).val)

\* Parallel polarizers around an empty stack: leakage 1, Tleak_pred 1/2
C26_ParallelPolarizers ==
    /\ Done("main") /\ sweep.at = "row" /\ ret.ok
    /\ stack = <<>> /\ c1 = X_AXIS /\ c2 = X_AXIS /\ basis = "pol_in"
    /\ sweep.r.s1 = R1
    /\ ret.val.Tleak_pred = <<1, 2>>
    /\ ret.val.CR_pred = RInt(2)

(***************************************************************************)
(* tex/overleaf/generate_examples.py: compute_bestA_green and CR0_white    *)
(* assign WL_KEYS and DN_SCALE of the engine module, evaluate, and assign  *)
(* the saved values back.  An item of Agrid, and bestA, is <<a>> for the   *)
(* number a and <<>> for None.  The locals are kept in loop.               *)
(***************************************************************************)
\* float(x): TypeError for None
FloatOf(x) ==
    IF x = <<>> THEN Raised("TypeError: float() argument must be a number")
    ELSE Returned(x[1])

\* m.build_stack_realistic: the LC cell and an A-plate of A_scale times the
\* base thickness
build_stack_realistic(A_scale) ==
    <<el_LC, [el_A EXCEPT !.d = RMul(RInt(A_scale), el_A.d)]>>

\* m.Tleak_stack_scalar: the white leakage over the module's WL_KEYS with
\* the module's DN_SCALE
Tleak_stack_scalar(th, ph, stk, a1, a2) ==
    Tleak_stack_W(th, ph, stk, a1, a2, "current", WL_KEYS, WL_WEIGHTS)

\* The azimuths of np.arange(0, 361, 10) that are whole quarter turns
GenPhis == <<0, 90, 180, 270, 360>>

\* CRs of the loop over phis
CRsOf(stk) ==
    [n \in 1..Len(GenPhis) |->
        CR_from_Tleak(Tleak_stack_scalar(0, GenPhis[n], stk, X_AXIS, Y_AXIS).val)]

\* np.mean
MeanOf(vals) ==
    IF \A n \in DOMAIN vals : vals[n] = vals[1] THEN vals[1]
    ELSE RDiv(RSumSeq(vals), RInt(Len(vals)))

\* a > b for contrasts, where <<n, d, -1>> is (n/d) / eps
Greater(a, b) ==
    IF Len(a) = 3
    THEN Len(b) # 3 \/ RLt(<<b[1], b[2]>>, <<a[1], a[2]>>)
    ELSE Len(b) # 3 /\ RLt(b, a)

\* The caller's own assignment of the module attributes before a call, as
\* main does for its white-light examples
Gen_Preset ==
    /\ pc = "idle" /\ loop.at = "none" /\ hist = <<>>
    /\ \E keys \in {<<"B", "G", "R">>, <<"G">>, <<"R", "G">>},
          tab \in {DN_SCALE_MATCHED, DN_SCALE_MISMATCHED} :
          /\ WL_KEYS' = keys /\ DN_SCALE' = tab
    /\ hist' = <<"preset">>
    /\ UNCHANGED <<WL_WEIGHTS, arguments, locals, fn, pc, ret>>

\* compute_bestA_green up to the loop: save, override
BestA_Override(Agrid) ==
    /\ pc = "idle" /\ loop.at = "none"
    /\ fn' = "compute_bestA_green" /\ pc' = "ready"
    /\ loop' = [at |-> "loop", old_WL_KEYS |-> WL_KEYS, old_DN_SCALE |-> DN_SCALE,
                Agrid |-> Agrid, i |-> 0, bestA |-> <<>>, bestCR |-> RNeg(R1)]
    /\ WL_KEYS' = <<"G">>
    /\ DN_SCALE' = DN_SCALE_MATCHED
    /\ UNCHANGED <<WL_WEIGHTS, arguments, sweep, ret, hist>>

\* One pass of `for A_scale in Agrid`; float(A_scale) may raise
BestA_Pass ==
    /\ pc = "ready" /\ fn = "compute_bestA_green" /\ loop.at = "loop"
    /\ loop.i < Len(loop.Agrid)
    /\ \E A \in {FloatOf(loop.Agrid[loop.i + 1])} :
          IF ~A.ok
          THEN /\ loop' = [loop EXCEPT !.at = "raised"]
               /\ ret' = A /\ pc' = "done"
          ELSE /\ \E CRmean \in {MeanOf(CRsOf(build_stack_realistic(A.val)))} :
                     loop' = IF Greater(CRmean, loop.bestCR)
                             THEN [loop EXCEPT !.i = @ + 1, !.bestCR = CRmean,
                                               !.bestA = <<A.val>>]
                             ELSE [loop EXCEPT !.i = @ + 1]
               /\ UNCHANGED <<ret, pc>>
    /\ UNCHANGED <<globals, arguments, sweep, fn, hist>>

\* After the loop: assign the saved values back and return
BestA_Return ==
    /\ pc = "ready" /\ fn = "compute_bestA_green" /\ loop.at = "loop"
    /\ loop.i = Len(loop.Agrid)
    /\ WL_KEYS' = loop.old_WL_KEYS
    /\ DN_SCALE' = loop.old_DN_SCALE
    /\ loop' = [loop EXCEPT !.at = "returned"]
    /\ ret' = Returned(<<loop.bestA, loop.bestCR>>) /\ pc' = "done"
    /\ UNCHANGED <<WL_WEIGHTS, arguments, sweep, fn, hist>>

\* CR0_white up to the stack: save, override
White_Override(bestA, case) ==
    /\ pc = "idle" /\ loop.at = "none"
    /\ fn' = "CR0_white" /\ pc' = "ready"
    /\ loop' = [at |-> "build", old_WL_KEYS |-> WL_KEYS, old_DN_SCALE |-> DN_SCALE,
                bestA |-> bestA, case |-> case]
    /\ WL_KEYS' = <<"B", "G", "R">>
    /\ DN_SCALE' = IF case = "matched" THEN DN_SCALE_MATCHED ELSE DN_SCALE_MISMATCHED
    /\ UNCHANGED <<WL_WEIGHTS, arguments, sweep, ret, hist>>

\* The stack, the contrasts, then the saved values assigned back; float(bestA)
\* may raise before the stack is built
White_Evaluate ==
    /\ pc = "ready" /\ fn = "CR0_white" /\ loop.at = "build"
    /\ \E A \in {FloatOf(loop.bestA)} :
          IF ~A.ok
          THEN /\ loop' = [loop EXCEPT !.at = "raised"]
               /\ ret' = A
               /\ UNCHANGED <<WL_KEYS, DN_SCALE>>
          ELSE /\ \E stk \in {build_stack_realistic(A.val)} :
                     ret' = Returned([mean |-> MeanOf(CRsOf(stk)), stack |-> stk])
               /\ loop' = [loop EXCEPT !.at = "returned"]
               /\ WL_KEYS' = loop.old_WL_KEYS
               /\ DN_SCALE' = loop.old_DN_SCALE
    /\ pc' = "done"
    /\ UNCHANGED <<WL_WEIGHTS, arguments, sweep, fn, hist>>

\* The longest Agrid
MaxGrid == 2
GenGrids == SeqsUpTo({<<1>>, <<2>>, <<>>}, MaxGrid)

NextGen ==
    \/ Gen_Preset
    \/ \E Agrid \in GenGrids : BestA_Override(Agrid)
    \/ BestA_Pass
    \/ BestA_Return
    \/ \E bestA \in {<<1>>, <<2>>, <<>>}, case \in {"matched", "mismatched"} :
          White_Override(bestA, case)
    \/ White_Evaluate

SpecGen == InitIdle /\ [][NextGen]_vars

\* C27: whenever control has left compute_bestA_green or CR0_white, by
\* return or by an exception, WL_KEYS and DN_SCALE hold the values they had
\* before the call.
C27_OverridesUndone ==
    (pc = "done" /\ fn \in {"compute_bestA_green", "CR0_white"}) =>
       /\ WL_KEYS = loop.old_WL_KEYS
       /\ DN_SCALE = loop.old_DN_SCALE

\* On a normal return they do.
C27_UndoneOnReturn ==
    (pc = "done" /\ fn \in {"compute_bestA_green", "CR0_white"} /\ ret.ok) =>
       /\ WL_KEYS = loop.old_WL_KEYS
       /\ DN_SCALE = loop.old_DN_SCALE

\* compute_bestA_green left by the TypeError of float(None): WL_KEYS is
\* still ("G",)
C27_LeftOverridden ==
    /\ pc = "done" /\ fn = "compute_bestA_green" /\ ~ret.ok
    /\ loop.old_WL_KEYS = <<"B", "G", "R">>
    /\ WL_KEYS = <<"G">>

\* A normal return of compute_bestA_green with a best A found and the
\* caller's keys back in place
C27_Returned ==
    /\ pc = "done" /\ fn = "compute_bestA_green" /\ ret.ok
    /\ ret.val[1] # <<>>
    /\ WL_KEYS = <<"R", "G">> /\ DN_SCALE = DN_SCALE_MISMATCHED

(***************************************************************************)
(* ips_stokes_trace.py run as a command: main.  The locals are kept in     *)
(* loop; file is the content of --out_json (<<>> while unwritten) and      *)
(* stdout the lines printed.                                               *)
(***************************************************************************)
\* The names bound in the module's namespace: its imports and definitions
ModuleNames ==
    {"annotations", "argparse", "json", "dataclass", "Dict", "List", "Tuple",
     "Optional", "np", "ips", "StokesPoint", "_normalize", "transverse_basis",
     "stokes_from_E", "trace_stokes_per_wavelength", "trace_stokes_white",
     "_build_demo_stack", "main"}

\* Evaluating a global name
Lookup(name) ==
    IF name \in ModuleNames THEN Returned(name)
    ELSE Raised("NameError: name '" \o name \o "' is not defined")

\* _build_demo_stack: the engine's realistic stack, or LC / A / C with the
\* in-plane axes at azimuth 0 and the sign of dC_um in the C-plate's ne
_build_demo_stack(mode, A_scale, dC_um) ==
    IF mode = "ex2" THEN Returned(build_stack_realistic(A_scale))
    ELSE IF mode = "LAC"
    THEN Returned(
           <<el_LC, [el_A EXCEPT !.axis = X_AXIS, !.d = RMul(RInt(A_scale), el_A.d)]>>
           \o (IF Abs(dC_um) > 0
               THEN <<[el_C EXCEPT !.d = RMul(RInt(Abs(dC_um)), el_C.d),
                                   !.ne = IF dC_um >= 0 THEN el_C.ne
                                          ELSE RSub(el_C.no, RSub(el_C.ne, el_C.no))]>>
               ELSE <<>>))
    ELSE Raised("ValueError: mode must be 'ex2' or 'LAC'")

\* The command line, at normal incidence
CliArgs ==
    [phi : {0, 90}, basis : {"lab", "pol_in", "pol_out"}, mode : {"ex2", "LAC"},
     A_scale : {1, 2}, dC_um : {-1, 0, 1}, white : BOOLEAN,
     out_json : {"stokes_trace.json"}]

\* main: the arguments, the polarizer axes and the stack
Cli_Start(args) ==
    /\ pc = "idle" /\ loop.at = "none"
    /\ \E stk \in {_build_demo_stack(args.mode, args.A_scale, args.dC_um)} :
          /\ stk.ok
          /\ stack' = stk.val
    /\ c1' = X_AXIS /\ c2' = Y_AXIS /\ theta' = 0 /\ phi' = args.phi
    /\ basis' = args.basis
    /\ loop' = [at |-> "built", args |-> args, trace |-> NoRet, file |-> <<>>,
                stdout |-> <<>>]
    /\ fn' = "main" /\ pc' = "ready"
    /\ UNCHANGED <<globals, lam_arg, disp_mode, wl_keys, wl_weights, scale_dict,
                   grid, sweep, ret, hist>>

\* rows = trace_stokes_white(...) or pts = trace_stokes_per_wavelength(...)
Cli_Trace ==
    /\ pc = "ready" /\ fn = "main" /\ loop.at = "built"
    /\ \E tr \in {IF loop.args.white
                  THEN trace_stokes_white(theta, phi, stack, c1, c2, basis,
                                          Import_WL_KEYS, NoneWeights)
                  ELSE trace_stokes_per_wavelength(theta, phi, stack, c1, c2, basis,
                                                   Import_WL_KEYS)} :
          IF tr.ok
          THEN /\ loop' = [loop EXCEPT !.at = "traced", !.trace = tr]
               /\ UNCHANGED <<ret, pc>>
          ELSE /\ loop' = [loop EXCEPT !.at = "raised", !.trace = tr]
               /\ ret' = tr /\ pc' = "done"
    /\ UNCHANGED <<globals, arguments, sweep, fn, hist>>

\* Path(args.out_json).write_text(json.dumps(...)) and print("Saved: ..."):
\* the names Path and json are looked up, the file is written, the line is
\* printed and main ends
Cli_Save ==
    /\ pc = "ready" /\ fn = "main" /\ loop.at = "traced"
    /\ \E P \in {Lookup("Path")}, J \in {Lookup("json")} :
          IF ~P.ok
          THEN /\ loop' = [loop EXCEPT !.at = "raised"]
               /\ ret' = P
          ELSE IF ~J.ok
          THEN /\ loop' = [loop EXCEPT !.at = "raised"]
               /\ ret' = J
          ELSE /\ loop' = [loop EXCEPT !.at = "saved",
                              !.file = <<IF loop.args.white THEN loop.trace.val
                                         ELSE [n \in 1..Len(loop.trace.val) |->
                                                 as_dict(loop.trace.val[n])]>>,
                              !.stdout = <<"Saved: " \o loop.args.out_json>>]
               /\ ret' = Returned(<<>>)
    /\ pc' = "done"
    /\ UNCHANGED <<globals, arguments, sweep, fn, hist>>

NextCli ==
    \/ \E args \in CliArgs : Cli_Start(args)
    \/ Cli_Trace
    \/ Cli_Save

SpecCli == InitIdle /\ [][NextCli]_vars

\* C28: a run of main whose stack was built and whose trace was computed
\* without error ends with the trace written to --out_json and reported as
\* saved; no error is raised after the trace has been computed.
C28_TraceIsSaved ==
    (pc = "done" /\ fn = "main" /\ loop.at # "none" /\ loop.trace.ok) =>
       /\ ret.ok
       /\ loop.file # <<>>
       /\ loop.stdout = <<"Saved: " \o loop.args.out_json>>

\* The run after the trace: NameError, nothing written, nothing printed
C28_NameErrorAfterTrace ==
    /\ pc = "done" /\ fn = "main" /\ loop.at = "raised"
    /\ loop.trace.ok /\ Len(loop.trace.val) > 0
    /\ ~ret.ok
    /\ loop.file = <<>> /\ loop.stdout = <<>>

\* No run reaches the write or the report
C28_NeverSaved == loop.at # "saved"

(***************************************************************************)
(* Stokes vectors of pure fields and of white sums                         *)
(***************************************************************************)
\* Weight maps of a white trace, one of them with a negative weight
StokesWeights ==
    {NoneWeights, [B |-> 0], [B |-> 2, G |-> 1], [B |-> 0, G |-> 0],
     [B |-> -1, G |-> 2]}

\* Per-wavelength and white traces behind every input axis; off the normal
\* only the empty stack is evaluated.
BindStokes ==
    \/ \E ph \in {0, 90}, stk \in SeqsUpTo({el_LC, el_A}, MaxStack), a1 \in AxisArgs,
          pol \in {"lab", "pol_in", "pol_out"}, keys \in {<<"B">>, <<"G", "R">>} :
          Bind_trace_at("trace_stokes_per_wavelength", 0, ph, stk, a1, Y_AXIS,
                        pol, keys, NoneWeights)
    \/ \E stk \in SeqsUpTo({el_LC, el_A}, MaxStack), a1 \in AxisArgs,
          pol \in {"lab", "pol_out"}, keys \in {<<"B", "G">>, <<"B", "G", "R">>},
          wopt \in StokesWeights :
          Bind_trace_at("trace_stokes_white", 0, 0, stk, a1, Y_AXIS, pol, keys, wopt)
    \/ \E f \in {"trace_stokes_per_wavelength", "trace_stokes_white"},
          th \in {90, 180}, ph \in {0, 90}, a1 \in PolAxes :
          Bind_trace_at(f, th, ph, <<>>, a1, Y_AXIS, "lab", <<"B", "G">>, [B |-> 2])

NextStokes ==
    \/ BindStokes
    \/ Call_trace_stokes_per_wavelength
    \/ Call_trace_stokes_white

SpecStokes == InitIdle /\ [][NextStokes]_vars

\* a + b over the least common denominator
RAddLcd(a, b) ==
    The({ RNorm(a[1] * (b[2] \div g) + b[1] * (a[2] \div g), (a[2] \div g) * b[2])
          : g \in {GCD(a[2], b[2])} })

\* a^2 + b^2 + c^2
SumSquares(a, b, c) == RAddLcd(RAddLcd(RMul(a, a), RMul(b, b)), RMul(c, c))

\* the weights a white trace uses on its keys are all non-negative
NonNegativeWeights ==
    \A n \in DOMAIN wl_keys : WeightOf(WeightsUsed, wl_keys[n]) >= 0

\* C29: every point of a returned trace has S0 >= 0 and
\* S0^2 = S1^2 + S2^2 + S3^2, and every row of a white trace with
\* non-negative weights has s1^2 + s2^2 + s3^2 <= 1.
C29_PureAndDepolarized ==
    /\ (Done("trace_stokes_per_wavelength") /\ ret.ok) =>
          \A n \in DOMAIN ret.val :
             /\ RLe(R0, ret.val[n].S0)
             /\ RMul(ret.val[n].S0, ret.val[n].S0)
                   = SumSquares(ret.val[n].S1, ret.val[n].S2, ret.val[n].S3)
    /\ (Done("trace_stokes_white") /\ ret.ok /\ NonNegativeWeights) =>
          \A r \in DOMAIN ret.val :
             /\ Len(ret.val[r].s1) = 2 /\ Len(ret.val[r].s2) = 2
             /\ Len(ret.val[r].s3) = 2
             /\ RLe(SumSquares(ret.val[r].s1, ret.val[r].s2, ret.val[r].s3), R1)

\* A white row behind an A-plate that is a half-wave plate at B and a
\* quarter-wave plate at G: partially polarized, s1^2 + s2^2 + s3^2 < 1
C29_Witness ==
    /\ Done("trace_stokes_white") /\ ret.ok /\ NonNegativeWeights
    /\ stack = <<el_A>> /\ wl_keys = <<"B", "G">> /\ c1 = OBLIQUE_AXIS
    /\ RLt(R0, ret.val[2].S0_sum)
    /\ RLt(SumSquares(ret.val[2].s1, ret.val[2].s2, ret.val[2].s3), R1)

\* A pure field with all three of S1, S2, S3 at work
C29_WitnessPure ==
    /\ Done("trace_stokes_per_wavelength") /\ ret.ok
    /\ c1 = OBLIQUE_AXIS /\ basis = "lab"
    /\ \E n \in DOMAIN ret.val :
          /\ ret.val[n].S2 # R0 /\ ret.val[n].S3 # R0
          /\ ret.val[n].S0 = R1

(***************************************************************************)
(* White leakage against the leakages of its wavelengths                   *)
(***************************************************************************)
\* Weight maps with unequal, zero and missing weights
ConvexWeights ==
    {[B |-> 2], [G |-> 2], [B |-> 0, G |-> 1], [B |-> 2, G |-> 1, R |-> 0],
     [B |-> 0, G |-> 0, R |-> 0], [B |-> 1, G |-> 2, R |-> 1]}

BindConvex ==
    \/ \E ph \in {0, 90}, stk \in SeqsUpTo({el_LC, el_A}, MaxStack),
          a2 \in {Y_AXIS, OBLIQUE_AXIS, OBLIQUE_PERP},
          mode \in {"flat", "matched", "mismatched"},
          keys \in {<<"B">>, <<"G", "B">>, <<"B", "G", "R">>}, wmap \in ConvexWeights :
          /\ Bind("Tleak_stack_W", stk, X_AXIS, a2, 0, ph)
          /\ disp_mode' = mode /\ wl_keys' = keys /\ wl_weights' = wmap
          /\ UNCHANGED <<lam_arg, basis>>
    \/ \E stk \in SeqsUpTo({el_LC, el_A}, MaxStack),
          a2 \in {Y_AXIS, OBLIQUE_AXIS, OBLIQUE_PERP},
          mode \in {"flat", "matched", "mismatched"} :
          Bind_CR_W("CR_W", stk, a2, 0, mode)

NextConvex ==
    \/ BindConvex
    \/ Call_Tleak_stack_W
    \/ Call_CR_W

SpecConvex == InitIdle /\ [][NextConvex]_vars

\* the leakage and the contrast of the bound call at the wavelength of key
MonoLeak(key) ==
    Tleak_stack_mono(theta, phi, stack, c1, c2, WL_NM[key], disp_mode).val
MonoContrast(key) ==
    CR_mono(theta, phi, stack, c1, c2, WL_NM[key], disp_mode).val

\* T lies between the leakages of two of the keys, and its contrast between
\* their contrasts
BetweenKeys(T, keys) ==
    \E i, j \in DOMAIN keys :
       /\ RLe(MonoLeak(keys[i]), T) /\ RLe(T, MonoLeak(keys[j]))
       /\ ~Greater(MonoContrast(keys[j]), CR_from_Tleak(T))
       /\ ~Greater(CR_from_Tleak(T), MonoContrast(keys[i]))

C30_WitnessContrast ==
    /\ Done("CR_W") /\ ret.ok
    /\ \E i, j \in DOMAIN Import_WL_KEYS :
          /\ Greater(ret.val, MonoContrast(Import_WL_KEYS[j]))
          /\ Greater(MonoContrast(Import_WL_KEYS[i]), ret.val)
=============================================================================
